---- MODULE Spec2Model ----
(***************************************************************************)
(* The community repository: the relay pipeline of agents/relay.py driving  *)
(* core/store.py, the routes of surface/app.py and the on_message handler  *)
(* of agents/discord_agent.py.  Text is a sequence of Unicode code points; *)
(* the store's tables are the sets (bindings: the sequence, in rowid       *)
(* order) of their rows; every awaited store call, dispatch or request is  *)
(* one atomic step of the coroutine that awaits it, and coroutines         *)
(* interleave between those steps.                                         *)
(*   Spec         the store and the pipeline, calls running concurrently   *)
(*   SpecSeq      the pipeline, one call after the other                   *)
(*   SpecFail     the pipeline with every store call able to fail          *)
(*   SpecHang     the pipeline with dispatches that never return, fair     *)
(*   SpecSurface  the surface and the agent running together               *)
(*   SpecText     the pure functions of agents/relay.py on drawn inputs    *)
(*   SpecLoop     the pipeline fed the texts it delivered itself           *)
(*   SpecCommunities  create_community requests for contested slugs        *)
(*   SpecIdentity registration and verification beside the relay's lookup  *)
(*   SpecVerify   verification requests among several members' claims      *)
(***************************************************************************)
EXTENDS Integers, Sequences, FiniteSets, TLC

\* ---- bounds of the model ------------------------------------------------
NumScopes == 2
NumMsgIds == 1
MaxCalls == 2
MaxBindings == 2
MaxMembers == 1
MaxRequests == 2
MaxEvents == 1

ScopeId(i) == "scope-" \o ToString(i)
Scopes == {ScopeId(i) : i \in 1..NumScopes}
MsgIds == {"m" \o ToString(i) : i \in 1..NumMsgIds}
\* Spec runs MaxCalls relay_message calls concurrently; SpecSeq runs one more, one
\* call at a time.
Calls == 1..MaxCalls
AllCalls == 1..(MaxCalls + 1)
\* The requests the surface serves at once, and the messages the agent handles at once.
Requests == 1..MaxRequests
Events == 1..MaxEvents
\* The one connector of the repository, the Discord agent, is the source platform.
SourcePlatforms == {"discord"}
Handles == {"alice"}
DisplayNames == {"Alice"}
Channels == {"D1"}

\* ---- text ---------------------------------------------------------------
\* The code points of the names the model uses.
Chars(s) ==
    CASE s = "discord" -> <<100, 105, 115, 99, 111, 114, 100>>
      [] s = "chatapp" -> <<99, 104, 97, 116, 97, 112, 112>>
      [] s = "newsletter" -> <<110, 101, 119, 115, 108, 101, 116, 116, 101, 114>>
      [] s = "alice" -> <<97, 108, 105, 99, 101>>
      [] s = "Alice" -> <<65, 108, 105, 99, 101>>
      [] s = "mallory" -> <<109, 97, 108, 108, 111, 114, 121>>
      [] s = "bob" -> <<98, 111, 98>>
      [] s = "carol" -> <<99, 97, 114, 111, 108>>
      [] s = "dave" -> <<100, 97, 118, 101>>
      [] s = "general" -> <<103, 101, 110, 101, 114, 97, 108>>
      [] s = "A3F9C2D1" -> <<65, 51, 70, 57, 67, 50, 68, 49>>
      [] s = "a3f9c2d1" -> <<97, 51, 102, 57, 99, 50, 100, 49>>
      [] s = "00000000" -> <<48, 48, 48, 48, 48, 48, 48, 48>>
      [] s = "A3F9" -> <<65, 51, 70, 57>>
      [] s = "VERIFY" -> <<86, 69, 82, 73, 70, 89>>
      [] s = "verify" -> <<118, 101, 114, 105, 102, 121>>
      [] OTHER -> <<>>

Rep(ch, n) == [i \in 1..n |-> ch]

\* str.isspace(): the characters str.strip() removes and \s matches.
IsSpace(ch) ==
    \/ ch \in 9..13
    \/ ch \in 28..32
    \/ ch \in {133, 160, 5760, 8232, 8233, 8239, 8287, 12288}
    \/ ch \in 8192..8202

RECURSIVE lstrip(_)
lstrip(s) == IF s = <<>> \/ ~IsSpace(Head(s)) THEN s ELSE lstrip(Tail(s))

RECURSIVE rstrip(_)
rstrip(s) == IF s = <<>> \/ ~IsSpace(s[Len(s)]) THEN s ELSE rstrip(SubSeq(s, 1, Len(s) - 1))

strip(s) == rstrip(lstrip(s))

MIN_RELAY_LENGTH == 40

\* The character class of _EMOJI_ONLY.
InEmojiClass(ch) ==
    \/ ch \in 127744..129535
    \/ ch \in 129536..129695
    \/ ch \in 9728..9983
    \/ ch \in 9984..10175
    \/ IsSpace(ch)

_EMOJI_ONLY(s) == Len(s) >= 1 /\ \A i \in 1..Len(s) : InEmojiClass(s[i])

_RELAY_PREFIX == 128225

startswith(s, ch) == Len(s) >= 1 /\ s[1] = ch

\* Mutant: the filter without its test for the attribution marker.
should_relay_without_marker_test(content) ==
    LET c == strip(content)
    IN  IF Len(c) < MIN_RELAY_LENGTH THEN FALSE
        ELSE IF _EMOJI_ONLY(c) THEN FALSE
        ELSE TRUE

\* Mutant: the length test with <= for <.
should_relay_threshold_exclusive(content) ==
    LET c == strip(content)
    IN  IF Len(c) <= MIN_RELAY_LENGTH THEN FALSE
        ELSE IF _EMOJI_ONLY(c) THEN FALSE
        ELSE IF startswith(c, _RELAY_PREFIX) THEN FALSE
        ELSE TRUE

should_relay(content) ==
    LET c == strip(content)
    IN  IF Len(c) < MIN_RELAY_LENGTH THEN FALSE
        ELSE IF _EMOJI_ONLY(c) THEN FALSE
        ELSE IF startswith(c, _RELAY_PREFIX) THEN FALSE
        ELSE TRUE

MAX_RELAY_CONTENT == 500

IsLower(ch) == ch \in 97..122
IsUpper(ch) == ch \in 65..90

\* str.title(): a cased character is upper-cased after an uncased one and
\* lower-cased after a cased one.
title(s) ==
    [i \in 1..Len(s) |->
        LET cased_before == i > 1 /\ (IsLower(s[i - 1]) \/ IsUpper(s[i - 1]))
        IN  IF cased_before
            THEN (IF IsUpper(s[i]) THEN s[i] + 32 ELSE s[i])
            ELSE (IF IsLower(s[i]) THEN s[i] - 32 ELSE s[i])]

RECURSIVE quote_lines(_)
\* "\n".join("> " + line for line in content.split("\n")), less the first "> ":
\* every line break of the content is followed by "> ".  The text is rendered by
\* halves, so that a long content nests no deeper than a short one.
quote_lines(s) ==
    IF s = <<>> THEN <<>>
    ELSE IF Len(s) = 1 THEN (IF s[1] = 10 THEN <<10, 62, 32>> ELSE s)
    ELSE quote_lines(SubSeq(s, 1, Len(s) \div 2))
            \o quote_lines(SubSeq(s, Len(s) \div 2 + 1, Len(s)))

\* Mutant: the cut at MAX_RELAY_CONTENT, no room left for the ellipsis.
truncate_without_room(content) ==
    IF Len(content) > MAX_RELAY_CONTENT
    THEN SubSeq(content, 1, MAX_RELAY_CONTENT) \o <<46, 46, 46>>
    ELSE content

\* if len(content) > MAX_RELAY_CONTENT: content = content[:MAX_RELAY_CONTENT - 3] + "..."
truncate(content) ==
    IF Len(content) > MAX_RELAY_CONTENT
    THEN SubSeq(content, 1, MAX_RELAY_CONTENT - 3) \o <<46, 46, 46>>
    ELSE content

format_relay(content, author, source_platform) ==
    <<_RELAY_PREFIX>> \o <<32, 102, 114, 111, 109, 32>> \o title(Chars(source_platform))
        \o <<32, 8212, 32, 64>> \o Chars(author) \o <<58, 10>>
        \o <<62, 32>> \o quote_lines(truncate(content))

RECURSIVE str_int(_)
\* str(n) of a count: its decimal digits.
str_int(n) == IF n < 10 THEN <<48 + n>> ELSE str_int(n \div 10) \o <<48 + (n % 10)>>

\* list(a set of strings): the elements once each, in the order the set iterates
\* them, which is the order of their hashes in the table and not of their insertion;
\* str hashes are salted per process, so any order can come out.
list_of_set(S) ==
    {order \in [1..Cardinality(S) -> S] :
        \A i \in 1..Cardinality(S), j \in 1..Cardinality(S) : order[i] = order[j] => i = j}

RECURSIVE join_authors(_)
\* ", ".join(f"@{a}" for a in authors)
join_authors(authors) ==
    IF authors = <<>> THEN <<>>
    ELSE <<64>> \o Chars(Head(authors))
            \o (IF Tail(authors) = <<>> THEN <<>> ELSE <<44, 32>> \o join_authors(Tail(authors)))

\* The if/elif/else of format_summary on the list of distinct authors.
author_str(authors) ==
    IF Len(authors) = 1 THEN <<64>> \o Chars(authors[1])
    ELSE IF Len(authors) <= 3 THEN join_authors(authors)
    ELSE <<64>> \o Chars(authors[1]) \o <<44, 32, 64>> \o Chars(authors[2])
            \o <<44, 32, 97, 110, 100, 32>> \o str_int(Len(authors) - 2)
            \o <<32, 111, 116, 104, 101, 114, 115>>

\* The return expression of format_summary, given the list of distinct authors.
format_summary_text(messages, source_platform, channel, authors) ==
    LET count == Len(messages)
    IN  <<_RELAY_PREFIX, 32>> \o str_int(count) \o <<32>>
            \o (IF count = 1 THEN <<114, 101, 112, 108, 121>>
                ELSE <<114, 101, 112, 108, 105, 101, 115>>)
            \o <<32, 111, 110, 32>> \o title(Chars(source_platform))
            \o <<32, 35>> \o Chars(channel)
            \o <<32, 102, 114, 111, 109, 32>> \o author_str(authors)
            \o <<46, 32, 72, 101, 97, 100, 32, 116, 104, 101, 114, 101, 32, 102, 111, 114,
                 32, 116, 104, 101, 32, 102, 117, 108, 108, 32, 116, 104, 114, 101, 97,
                 100, 46>>

\* The texts format_summary can return: one for each order of list({...}).
format_summary(messages, source_platform, channel) ==
    {format_summary_text(messages, source_platform, channel, authors) :
        authors \in list_of_set({messages[i].author : i \in 1..Len(messages)})}

\* str.upper() on the ASCII letters the model's texts are made of.
upper(s) == [i \in 1..Len(s) |-> IF IsLower(s[i]) THEN s[i] - 32 ELSE s[i]]

IsHex(ch) == ch \in 48..57 \/ ch \in 65..70

\* re.match(r"^VERIFY\s+([A-F0-9]{8})\s*$", content.strip().upper()): the code, or
\* Nothing.  After strip() the text ends in no whitespace, so the code is its last
\* eight characters and all between VERIFY and the code is whitespace, at least one.
verify_match(content) ==
    LET c == upper(strip(content))
        n == Len(c)
    IN  IF /\ n >= 15
           /\ SubSeq(c, 1, 6) = Chars("VERIFY")
           /\ \A i \in 7..(n - 8) : IsSpace(c[i])
           /\ \A i \in (n - 7)..n : IsHex(c[i])
        THEN <<SubSeq(c, n - 7, n)>>
        ELSE <<>>

\* ---- inbound contents the model draws from -------------------------------
ThoughtA == Rep(97, 40)
ThoughtB == <<32>> \o Rep(98, 41) \o <<10>>
AlreadyRelayed == <<128225>> \o Rep(97, 40)
Contents == {ThoughtA, ThoughtB, AlreadyRelayed}
\* What members type at the bot: the issued code in lower case behind a run of
\* blanks (40 characters, long enough for the relay filter), a wrong code, and a
\* code of the wrong length.
VerifyIssued == Chars("verify") \o Rep(32, 26) \o Chars("a3f9c2d1")
VerifyWrong == Chars("VERIFY") \o <<32>> \o Chars("00000000")
VerifyMalformed == Chars("VERIFY") \o <<32>> \o Chars("A3F9")

\* ---- values ---------------------------------------------------------------
None == "None"
\* uuid4(): a value no other creation yields.
uuid4(site, n) == site \o "-" \o ToString(n)

\* A dict as the set of its (key, value) items.
dict_get(d, key) ==
    IF \E kv \in d : kv[1] = key THEN (CHOOSE kv \in d : kv[1] = key)[2] ELSE None

\* The (platform, config) pairs bindings are registered with.
BindingInputs ==
    {<<"discord", {<<"default_channel_id", "D1">>}>>,
     <<"chatapp", {<<"default_channel_id", "C1">>}>>,
     <<"newsletter", {<<"default_channel_id", "N1">>}>>,
     <<"chatapp", {}>>}

VARIABLES
    members,            \* table members
    identity_claims,    \* table identity_claims
    bindings,           \* table bindings, in rowid order
    relay_messages,     \* table relay_messages
    provenance,         \* table provenance
    calls,              \* the relay_message coroutines: position and locals
    dispatched,         \* per call, the dispatch calls it made, in order
    scopes,             \* table scopes
    requests,           \* the request handlers of surface/app.py: position and locals
    response,           \* the response the surface sent last
    events,             \* the on_message handlers of the Discord agent
    evaluation          \* a call of one of the pure functions of agents/relay.py

vars == <<members, identity_claims, bindings, relay_messages, provenance, calls, dispatched, scopes, requests, response, events, evaluation>>

\* What the relay pipeline and the store calls made directly leave alone.
surface_vars == <<scopes, requests, response, events, evaluation>>

\* Optional[record]: the empty sequence is None, <<r>> is r.
Some(r) == <<r>>
Nothing == <<>>

IdleCall ==
    [pc |-> "idle", scope_id |-> None, content |-> <<>>, source_platform |-> None,
     source_channel |-> None, source_message_id |-> None, author_handle |-> None,
     resolved_id |-> None, display_name |-> None, prov_id |-> None, msg |-> Nothing,
     todo |-> <<>>, relay_text |-> <<>>, dispatched_to |-> <<>>,
     outcome |-> "pending", result |-> Nothing, error |-> None]

\* error: the store call of relay_message that raised, when one did.
\* A request handler of the surface: the route, the request body and what it has
\* read and created so far.  origin: the event whose handle_verification posted the
\* request, 0 for any other client.
IdleRequest ==
    [pc |-> "idle", route |-> None, body |-> <<>>, scope |-> Nothing, created |-> None,
     origin |-> 0]

\* No response sent yet.
NoResponse == [route |-> None, body |-> <<>>, status |-> 0, detail |-> None, origin |-> 0]

\* An on_message handler: the message, the relay_message call it made (0: none), the
\* member and code of its verification command, and what it replied.
IdleEvent ==
    [pc |-> "idle", content |-> <<>>, author_handle |-> None, call |-> 0,
     member |-> Nothing, code |-> <<>>, reply |-> None, outcome |-> "pending"]

\* A call of should_relay, format_relay or format_summary: the function, its
\* arguments and, once it has returned, its result.
NoEvaluation ==
    [fn |-> None, content |-> <<>>, author |-> None, source_platform |-> None,
     messages |-> <<>>, channel |-> None, result |-> Nothing]

Init ==
    /\ members = {}
    /\ identity_claims = {}
    /\ bindings = <<>>
    /\ relay_messages = {}
    /\ provenance = {}
    /\ calls = [c \in AllCalls |-> IdleCall]
    /\ dispatched = [c \in AllCalls |-> <<>>]
    /\ scopes = {}
    /\ requests = [r \in Requests |-> IdleRequest]
    /\ response = NoResponse
    /\ events = [e \in Events |-> IdleEvent]
    /\ evaluation = NoEvaluation

\* Scope ids are interchangeable: they are numbered in order of first use.
used_scopes ==
    {m.scope_id : m \in members} \cup {bindings[i].scope_id : i \in 1..Len(bindings)}
        \cup {calls[c].scope_id : c \in {k \in AllCalls : calls[k].pc # "idle"}}

next_scope(s) ==
    \E i \in 1..NumScopes : s = ScopeId(i) /\ (i = 1 \/ ScopeId(i - 1) \in used_scopes)

\* ---- core/store.py ---------------------------------------------------------
VerificationCodes == {Chars("A3F9C2D1")}

PlatformHandles == {{<<"discord", "alice">>}}

create_member(scope_id, display_name, canonical_identity, platform_handles) ==
    /\ LET member == [id |-> uuid4("member", Cardinality(members) + 1),
                      scope_id |-> scope_id, archetype_name |-> "member",
                      display_name |-> display_name,
                      canonical_identity |-> canonical_identity,
                      platform_handles |-> platform_handles, is_agent |-> FALSE]
       IN  /\ members' = members \cup {member}
           /\ \E code \in [platform_handles -> VerificationCodes] :
                identity_claims' =
                    {ic \in identity_claims :
                        ~\E kv \in platform_handles :
                            ic.member_id = member.id /\ ic.platform = kv[1]}
                    \cup {[member_id |-> member.id, platform |-> kv[1], handle |-> kv[2],
                           verification_code |-> code[kv], verified |-> FALSE] :
                           kv \in platform_handles}

\* Mutant: the SELECT without its `m.scope_id = ?`.
get_member_by_handle_any_scope(platform, handle, scope_id) ==
    {m \in members :
        \E ic \in identity_claims :
            ic.member_id = m.id /\ ic.platform = platform /\ ic.handle = handle}

\* The rows the SELECT of get_member_by_handle matches; fetchone() returns one.
get_member_by_handle(platform, handle, scope_id) ==
    {m \in members :
        /\ m.scope_id = scope_id
        /\ \E ic \in identity_claims :
              ic.member_id = m.id /\ ic.platform = platform /\ ic.handle = handle}

upsert_binding(scope_id, platform, config) ==
    /\ Len(bindings) < MaxBindings
    /\ LET binding == [id |-> uuid4("binding", Len(bindings) + 1), scope_id |-> scope_id,
                       platform |-> platform, config |-> config, active |-> TRUE]
       IN  \* INSERT OR REPLACE replaces the row with the same primary key, id
           bindings' = SelectSeq(bindings, LAMBDA b : b.id # binding.id) \o <<binding>>

get_active_bindings(scope_id) ==
    SelectSeq(bindings, LAMBDA b : b.scope_id = scope_id /\ b.active)

\* Mutant: the table without its UNIQUE (source_platform, source_message_id).
insert_conflicts_primary_key_only(rows, msg) ==
    \E r \in rows : r.id = msg.id

\* The INSERT of save_relay_message: an IntegrityError when the primary key or
\* UNIQUE (source_platform, source_message_id) is already taken.
insert_conflicts(rows, msg) ==
    \E r \in rows :
        \/ r.id = msg.id
        \/ r.source_platform = msg.source_platform
              /\ r.source_message_id = msg.source_message_id

\* [rows: the table afterwards, raised: the exception leaving the function,
\*  returned: the value returned]
save_relay_message(rows, msg) ==
    IF insert_conflicts(rows, msg)
    THEN [rows |-> rows, raised |-> None, returned |-> msg]
    ELSE [rows |-> rows \cup {msg}, raised |-> None, returned |-> msg]

new_provenance(id, scope_id, action, source_platform, source_identity, subject_id, detail) ==
    [id |-> id, scope_id |-> scope_id, action |-> action,
     source_platform |-> source_platform, source_identity |-> source_identity,
     subject_id |-> subject_id, detail |-> detail]

\* Mutant: INSERT OR REPLACE on a table keyed by scope, one record kept per scope.
emit_provenance_replacing(prov) ==
    provenance' = {p \in provenance : p.scope_id # prov.scope_id} \cup {prov}

emit_provenance(prov) == provenance' = provenance \cup {prov}

\* ---- agents/relay.py: relay_message -------------------------------------------
\* Mutant: the message's own id passed where the provenance id belongs.
RelayMessage_own_id_as_provenance(id, scope_id, provenance_id, content, source_platform, source_channel, source_message_id, author_handle, resolved_member_id) ==
    [id |-> id, scope_id |-> scope_id, provenance_id |-> id,
     content |-> content, source_platform |-> source_platform,
     source_channel |-> source_channel, source_message_id |-> source_message_id,
     author_handle |-> author_handle, resolved_member_id |-> resolved_member_id,
     is_summary |-> FALSE, relay_count |-> 0]

RelayMessage(id, scope_id, provenance_id, content, source_platform, source_channel, source_message_id, author_handle, resolved_member_id) ==
    [id |-> id, scope_id |-> scope_id, provenance_id |-> provenance_id,
     content |-> content, source_platform |-> source_platform,
     source_channel |-> source_channel, source_message_id |-> source_message_id,
     author_handle |-> author_handle, resolved_member_id |-> resolved_member_id,
     is_summary |-> FALSE, relay_count |-> 0]

\* Mutant: the loop without its source-platform `continue`.
eligible_without_echo_check(binding, source_platform) ==
    dict_get(binding.config, "default_channel_id") \notin {None, ""}

\* The two `continue`s of the fan-out loop.
eligible(binding, source_platform) ==
    /\ binding.platform # source_platform
    /\ dict_get(binding.config, "default_channel_id") \notin {None, ""}

RECURSIVE skip_ineligible(_, _)
\* The loop running on, without suspending, to the next binding it dispatches to.
skip_ineligible(todo, source_platform) ==
    IF todo = <<>> \/ eligible(Head(todo), source_platform) THEN todo
    ELSE skip_ineligible(Tail(todo), source_platform)

\* Mutant: the pipeline without its filter.
relay_message_unfiltered(c, scope_id, content, source_platform, source_channel, source_message_id, author_handle) ==
    /\ calls[c].pc = "idle"
    /\ IF c = 1 THEN TRUE ELSE calls[c - 1].pc # "idle"
    /\ LET args == [IdleCall EXCEPT !.scope_id = scope_id, !.content = content,
                        !.source_platform = source_platform,
                        !.source_channel = source_channel,
                        !.source_message_id = source_message_id,
                        !.author_handle = author_handle]
           found == get_member_by_handle(source_platform, author_handle, scope_id)
       IN  IF found = {}
           THEN calls' = [calls EXCEPT ![c] =
                    [args EXCEPT !.pc = "emit_received", !.resolved_id = None,
                                 !.display_name = author_handle]]
           ELSE \E member \in found :
                    calls' = [calls EXCEPT ![c] =
                        [args EXCEPT !.pc = "emit_received", !.resolved_id = member.id,
                                     !.display_name = member.display_name]]
    /\ UNCHANGED <<members, identity_claims, bindings, relay_messages, provenance, dispatched>>

\* Steps 1 and 2: the filter, then the identity lookup.
relay_message(c, scope_id, content, source_platform, source_channel, source_message_id, author_handle) ==
    /\ calls[c].pc = "idle"
    /\ IF c = 1 THEN TRUE ELSE calls[c - 1].pc # "idle"
    /\ LET args == [IdleCall EXCEPT !.scope_id = scope_id, !.content = content,
                        !.source_platform = source_platform,
                        !.source_channel = source_channel,
                        !.source_message_id = source_message_id,
                        !.author_handle = author_handle]
           found == get_member_by_handle(source_platform, author_handle, scope_id)
       IN  IF ~should_relay(content)
           THEN calls' = [calls EXCEPT ![c] =
                    [args EXCEPT !.pc = "done", !.outcome = "returned", !.result = Nothing]]
           ELSE IF found = {}
           THEN calls' = [calls EXCEPT ![c] =
                    [args EXCEPT !.pc = "emit_received", !.resolved_id = None,
                                 !.display_name = author_handle]]
           ELSE \E member \in found :
                    calls' = [calls EXCEPT ![c] =
                        [args EXCEPT !.pc = "emit_received", !.resolved_id = member.id,
                                     !.display_name = member.display_name]]
    /\ UNCHANGED <<members, identity_claims, bindings, relay_messages, provenance, dispatched>>

\* Step 3: the "message.received" record, and the RelayMessage built from it.
relay_emit_received(c) ==
    /\ calls[c].pc = "emit_received"
    /\ LET cl == calls[c]
           prov == new_provenance(uuid4("provenance-received", c), cl.scope_id,
                       "message.received", cl.source_platform, cl.author_handle,
                       cl.source_message_id,
                       [channel |-> cl.source_channel, content_length |-> Len(cl.content),
                        resolved_member |-> cl.resolved_id])
           msg == RelayMessage(uuid4("message", c), cl.scope_id, prov.id, cl.content,
                      cl.source_platform, cl.source_channel, cl.source_message_id,
                      cl.author_handle, cl.resolved_id)
       IN  /\ emit_provenance(prov)
           /\ calls' = [calls EXCEPT ![c].pc = "save", ![c].prov_id = prov.id,
                                     ![c].msg = Some(msg)]
    /\ UNCHANGED <<members, identity_claims, bindings, relay_messages, dispatched>>

\* Mutant: save_relay_message called without await, so the insert never runs.
relay_save_not_awaited(c) ==
    /\ calls[c].pc = "save"
    /\ calls' = [calls EXCEPT ![c].pc = "get_bindings"]
    /\ UNCHANGED <<members, identity_claims, bindings, relay_messages, provenance, dispatched>>

\* Step 4: msg = await store.save_relay_message(msg)
relay_save(c) ==
    /\ calls[c].pc = "save"
    /\ LET saved == save_relay_message(relay_messages, calls[c].msg[1])
       IN  /\ relay_messages' = saved.rows
           /\ calls' = IF saved.raised # None
                        THEN [calls EXCEPT ![c].pc = "done", ![c].outcome = "raised"]
                        ELSE [calls EXCEPT ![c].pc = "get_bindings",
                                           ![c].msg = Some(saved.returned)]
    /\ UNCHANGED <<members, identity_claims, bindings, provenance, dispatched>>

\* Step 5: the bindings, the text rendered once, and the loop up to its first dispatch.
relay_get_bindings(c) ==
    /\ calls[c].pc = "get_bindings"
    /\ LET cl == calls[c]
       IN  calls' = [calls EXCEPT
               ![c].pc = "fanout",
               ![c].todo = skip_ineligible(get_active_bindings(cl.scope_id), cl.source_platform),
               ![c].relay_text = format_relay(cl.content, cl.display_name, cl.source_platform),
               ![c].dispatched_to = <<>>]
    /\ UNCHANGED <<members, identity_claims, bindings, relay_messages, provenance, dispatched>>

\* Mutant: no except clause, the failure leaves relay_message.
on_dispatch_error_propagates(cl, rest) ==
    [cl EXCEPT !.pc = "done", !.outcome = "raised"]

\* Mutant: the platform is appended to dispatched_to whether or not dispatch raised.
on_dispatch_error_counted(cl, rest) ==
    [cl EXCEPT !.todo = rest, !.dispatched_to = Append(@, Head(cl.todo).platform)]

\* except Exception: the failure is printed and the loop goes on.
on_dispatch_error(cl, rest) ==
    [cl EXCEPT !.todo = rest]

\* ---- agents/discord_agent.py: the dispatch function of the pipeline ---------------
\* The dispatch_registry the agent is constructed with: the platforms with a handler.
Registry == {"chatapp"}

\* DiscordAgent._dispatch: the ways one call can end.  sent: the text reached the
\* platform; ok: the call returned (it did not raise).
_dispatch(platform) ==
    IF platform = "discord"
    THEN \* the channel is found and the send returns or raises, or it is not found
         {[sent |-> TRUE, ok |-> TRUE], [sent |-> FALSE, ok |-> FALSE],
          [sent |-> FALSE, ok |-> TRUE]}
    ELSE IF platform \in Registry
    THEN \* the registered send function returns or raises
         {[sent |-> TRUE, ok |-> TRUE], [sent |-> FALSE, ok |-> FALSE]}
    ELSE \* no handler: a line is printed and the call returns
         {[sent |-> FALSE, ok |-> TRUE]}

\* One await dispatch(binding.platform, channel_id, relay_text): it returns or raises.
relay_dispatch(c) ==
    /\ calls[c].pc = "fanout"
    /\ calls[c].todo # <<>>
    /\ LET cl == calls[c]
           binding == Head(cl.todo)
           channel_id == dict_get(binding.config, "default_channel_id")
           rest == skip_ineligible(Tail(cl.todo), cl.source_platform)
       IN  \E end \in _dispatch(binding.platform) :
             /\ dispatched' = [dispatched EXCEPT ![c] = Append(@,
                    [platform |-> binding.platform, channel_id |-> channel_id,
                     content |-> cl.relay_text, sent |-> end.sent, ok |-> end.ok])]
             /\ calls' = [calls EXCEPT ![c] =
                    IF end.ok
                    THEN [cl EXCEPT !.todo = rest,
                                    !.dispatched_to = Append(@, binding.platform)]
                    ELSE on_dispatch_error(cl, rest)]
    /\ UNCHANGED <<members, identity_claims, bindings, relay_messages, provenance>>

\* Mutant: the "message.relayed" record written without the `if dispatched_to`.
relay_finish_always_records(c) ==
    /\ calls[c].pc = "fanout"
    /\ calls[c].todo = <<>>
    /\ LET cl == calls[c]
       IN  /\ emit_provenance(new_provenance(uuid4("provenance-relayed", c),
                   cl.scope_id, "message.relayed", cl.source_platform,
                   cl.author_handle, cl.msg[1].id,
                   [dispatched_to |-> cl.dispatched_to]))
           /\ calls' = [calls EXCEPT ![c].pc = "done", ![c].outcome = "returned",
                                     ![c].result = cl.msg]
    /\ UNCHANGED <<members, identity_claims, bindings, relay_messages, dispatched>>

\* After the loop: the "message.relayed" record if anything was dispatched; return msg.
relay_finish(c) ==
    /\ calls[c].pc = "fanout"
    /\ calls[c].todo = <<>>
    /\ LET cl == calls[c]
       IN  /\ IF cl.dispatched_to # <<>>
              THEN emit_provenance(new_provenance(uuid4("provenance-relayed", c),
                       cl.scope_id, "message.relayed", cl.source_platform,
                       cl.author_handle, cl.msg[1].id,
                       [dispatched_to |-> cl.dispatched_to]))
              ELSE UNCHANGED provenance
           /\ calls' = [calls EXCEPT ![c].pc = "done", ![c].outcome = "returned",
                                     ![c].result = cl.msg]
    /\ UNCHANGED <<members, identity_claims, bindings, relay_messages, dispatched>>

\* The store and the pipeline called directly, the surface and the agent idle.
Next ==
    \/ /\ Cardinality(members) < MaxMembers
       /\ \E s \in {x \in Scopes : next_scope(x)}, d \in DisplayNames, h \in PlatformHandles :
             create_member(s, d, "alice@example.org", h)
       /\ UNCHANGED <<bindings, relay_messages, provenance, calls, dispatched, surface_vars>>
    \/ /\ \E s \in {x \in Scopes : next_scope(x)}, b \in BindingInputs :
             upsert_binding(s, b[1], b[2])
       /\ UNCHANGED <<members, identity_claims, relay_messages, provenance, calls, dispatched, surface_vars>>
    \/ /\ \E c \in Calls, s \in {x \in Scopes : next_scope(x)}, content \in Contents, p \in SourcePlatforms,
             ch \in Channels, m \in MsgIds, h \in Handles :
             relay_message(c, s, content, p, ch, m, h)
       /\ UNCHANGED surface_vars
    \/ /\ \E c \in Calls : relay_emit_received(c)
       /\ UNCHANGED surface_vars
    \/ /\ \E c \in Calls : relay_save(c)
       /\ UNCHANGED surface_vars
    \/ /\ \E c \in Calls : relay_get_bindings(c)
       /\ UNCHANGED surface_vars
    \/ /\ \E c \in Calls : relay_dispatch(c)
       /\ UNCHANGED surface_vars
    \/ /\ \E c \in Calls : relay_finish(c)
       /\ UNCHANGED surface_vars

Spec == Init /\ [][Next]_vars

\* A sequence of relay_message calls, each started after the one before has ended,
\* in a community whose only bindings are chatapp bindings of the first scope.
NextSeq ==
    \/ /\ upsert_binding(ScopeId(1), "chatapp", {<<"default_channel_id", "C1">>})
       /\ UNCHANGED <<members, identity_claims, relay_messages, provenance, calls, dispatched, surface_vars>>
    \/ /\ \E c \in AllCalls, s \in {x \in Scopes : next_scope(x)}, content \in Contents,
             p \in SourcePlatforms, ch \in Channels, m \in MsgIds, h \in Handles :
             /\ \A k \in AllCalls : calls[k].pc \in {"idle", "done"}
             /\ relay_message(c, s, content, p, ch, m, h)
       /\ UNCHANGED surface_vars
    \/ /\ \E c \in AllCalls : relay_emit_received(c)
       /\ UNCHANGED surface_vars
    \/ /\ \E c \in AllCalls : relay_save(c)
       /\ UNCHANGED surface_vars
    \/ /\ \E c \in AllCalls : relay_get_bindings(c)
       /\ UNCHANGED surface_vars
    \/ /\ \E c \in AllCalls : relay_dispatch(c)
       /\ UNCHANGED surface_vars
    \/ /\ \E c \in AllCalls : relay_finish(c)
       /\ UNCHANGED surface_vars

SpecSeq == Init /\ [][NextSeq]_vars

\* ---- the store unreachable ----------------------------------------------------
\* Mutant: an except clause around the store call that lets the pipeline go on.
on_store_error_swallowed(cl, step) ==
    [cl EXCEPT !.error = step,
               !.pc = IF step = "save" THEN "get_bindings" ELSE "done",
               !.outcome = IF step = "save" THEN @ ELSE "raised"]

\* relay_message has no except clause around its store calls: the error leaves it.
on_store_error(cl, step) ==
    [cl EXCEPT !.pc = "done", !.outcome = "raised", !.error = step]

\* await store.get_member_by_handle(...) raises: the database cannot be opened or read.
relay_lookup_unavailable(c, scope_id, content, source_platform, source_channel, source_message_id, author_handle) ==
    /\ calls[c].pc = "idle"
    /\ IF c = 1 THEN TRUE ELSE calls[c - 1].pc # "idle"
    /\ should_relay(content)
    /\ calls' = [calls EXCEPT ![c] =
            on_store_error([IdleCall EXCEPT !.scope_id = scope_id, !.content = content,
                                !.source_platform = source_platform,
                                !.source_channel = source_channel,
                                !.source_message_id = source_message_id,
                                !.author_handle = author_handle], "lookup")]
    /\ UNCHANGED <<members, identity_claims, bindings, relay_messages, provenance, dispatched>>

\* One of the later store calls raises an error other than the IntegrityError that
\* save_relay_message catches; nothing is committed.
relay_store_unavailable(c) ==
    /\ \/ calls[c].pc \in {"emit_received", "save", "get_bindings"}
       \/ calls[c].pc = "fanout" /\ calls[c].todo = <<>> /\ calls[c].dispatched_to # <<>>
    /\ calls' = [calls EXCEPT ![c] =
            on_store_error(calls[c], IF calls[c].pc = "fanout" THEN "emit_relayed" ELSE calls[c].pc)]
    /\ UNCHANGED <<members, identity_claims, bindings, relay_messages, provenance, dispatched>>

\* The pipeline of one scope with two registered destinations, every store call of
\* which may fail.
NextFail ==
    \/ /\ \E b \in {x \in BindingInputs : x[1] # "discord" /\ x[2] # {}} :
             upsert_binding(ScopeId(1), b[1], b[2])
       /\ UNCHANGED <<members, identity_claims, relay_messages, provenance, calls, dispatched, surface_vars>>
    \/ /\ \E c \in Calls, p \in SourcePlatforms, ch \in Channels, m \in MsgIds, h \in Handles :
             \/ relay_message(c, ScopeId(1), ThoughtA, p, ch, m, h)
             \/ relay_lookup_unavailable(c, ScopeId(1), ThoughtA, p, ch, m, h)
       /\ UNCHANGED surface_vars
    \/ /\ \E c \in Calls :
             \/ relay_emit_received(c)
             \/ relay_save(c)
             \/ relay_get_bindings(c)
             \/ relay_dispatch(c)
             \/ relay_finish(c)
             \/ relay_store_unavailable(c)
       /\ UNCHANGED surface_vars

SpecFail == Init /\ [][NextFail]_vars

\* ---- a dispatch that never completes ---------------------------------------------
\* await dispatch(...) on a platform whose send never returns: _dispatch sets no
\* timeout, and the coroutine stays suspended inside the loop.
relay_dispatch_hangs(c) ==
    /\ calls[c].pc = "fanout"
    /\ calls[c].todo # <<>>
    /\ Head(calls[c].todo).platform \in Registry \cup {"discord"}
    /\ LET cl == calls[c]
           binding == Head(cl.todo)
       IN  /\ dispatched' = [dispatched EXCEPT ![c] = Append(@,
                  [platform |-> binding.platform,
                   channel_id |-> dict_get(binding.config, "default_channel_id"),
                   content |-> cl.relay_text, sent |-> FALSE, ok |-> FALSE])]
           /\ calls' = [calls EXCEPT ![c].pc = "hung"]
    /\ UNCHANGED <<members, identity_claims, bindings, relay_messages, provenance>>

\* The steps of call c the event loop runs whenever they are ready.
relay_step(c) ==
    /\ \/ relay_emit_received(c)
       \/ relay_save(c)
       \/ relay_get_bindings(c)
       \/ relay_dispatch(c)
       \/ relay_finish(c)
    /\ UNCHANGED surface_vars

NextHang ==
    \/ /\ \E b \in {x \in BindingInputs : x[1] # "discord" /\ x[2] # {}} :
             upsert_binding(ScopeId(1), b[1], b[2])
       /\ UNCHANGED <<members, identity_claims, relay_messages, provenance, calls, dispatched, surface_vars>>
    \/ /\ \E c \in Calls, p \in SourcePlatforms, ch \in Channels, m \in MsgIds, h \in Handles :
             relay_message(c, ScopeId(1), ThoughtA, p, ch, m, h)
       /\ UNCHANGED surface_vars
    \/ \E c \in Calls : relay_step(c)
    \/ /\ \E c \in Calls : relay_dispatch_hangs(c)
       /\ UNCHANGED surface_vars

\* asyncio runs every coroutine that is ready: each call takes its next step.
SpecHang == Init /\ [][NextHang]_vars /\ \A c \in Calls : WF_vars(relay_step(c))

\* ---- core/store.py: scopes and verification ---------------------------------------
get_scope_by_slug(slug) == {sc \in scopes : sc.slug = slug}

\* INSERT INTO scopes: slug is UNIQUE, the id is fresh.
create_scope(name, slug, owner_id) ==
    scopes' = scopes \cup {[id |-> ScopeId(Cardinality(scopes) + 1), name |-> name,
                             slug |-> slug, owner_id |-> owner_id]}

\* Mutant: the SELECT without its `verified = 0`.
verify_identity_claim_select_any(member_id, platform, code) ==
    {ic \in identity_claims :
        /\ ic.member_id = member_id /\ ic.platform = platform
        /\ ic.verification_code = upper(code)}

\* The SELECT of verify_identity_claim: the rows fetchone() can return.
verify_identity_claim_select(member_id, platform, code) ==
    {ic \in identity_claims :
        /\ ic.member_id = member_id /\ ic.platform = platform
        /\ ic.verification_code = upper(code) /\ ~ic.verified}

\* Mutant: the UPDATE without its `AND platform = ?`.
verify_identity_claim_update_every_platform(member_id, platform) ==
    identity_claims' =
        {IF ic.member_id = member_id
         THEN [ic EXCEPT !.verified = TRUE] ELSE ic : ic \in identity_claims}

\* The UPDATE of verify_identity_claim.
verify_identity_claim_update(member_id, platform) ==
    identity_claims' =
        {IF ic.member_id = member_id /\ ic.platform = platform
         THEN [ic EXCEPT !.verified = TRUE] ELSE ic : ic \in identity_claims}

\* ---- surface/app.py -----------------------------------------------------------------
\* Requests take the lowest idle handler.
next_request(r) == requests[r].pc = "idle" /\ \A k \in 1..(r - 1) : requests[k].pc # "idle"

\* The handler returns or raises HTTPException: the response leaves the surface.
respond(r, status, detail) ==
    /\ requests' = [requests EXCEPT ![r] = IdleRequest]
    /\ response' = [route |-> requests[r].route, body |-> requests[r].body,
                    status |-> status, detail |-> detail, origin |-> requests[r].origin]

\* The Provenance record a route writes about the row it created.
route_provenance(req, action, source_identity, subject_id, detail) ==
    new_provenance("provenance-" \o req.created, req.scope[1].id, action, None,
                   source_identity, subject_id, detail)

CommunityBodies == {[name |-> "Hive", slug |-> "hive", owner_email |-> "owner@example.org"]}

MemberBodies ==
    {[scope_slug |-> "hive", email |-> "alice@example.org", display_name |-> "Alice",
      platform_handles |-> {<<"discord", "alice">>}]}

BindingBodies ==
    {[scope_slug |-> "hive", platform |-> "chatapp", default_channel_id |-> "C1",
      owner_email |-> "owner@example.org"]}

\* What any client can post to /members/verify: the issued code, a wrong code, and a
\* platform the member claimed no handle on.
VerifyBodies ==
    {[member_id |-> uuid4("member", 1), platform |-> "discord", code |-> Chars("a3f9c2d1")],
     [member_id |-> uuid4("member", 1), platform |-> "discord", code |-> Chars("00000000")],
     [member_id |-> uuid4("member", 1), platform |-> "chatapp", code |-> Chars("a3f9c2d1")]}

\* POST /communities, to its first store call.
create_community(r, body) ==
    /\ next_request(r)
    /\ IF get_scope_by_slug(body.slug) # {}
       THEN /\ requests' = requests
            /\ response' = [route |-> "create_community", body |-> body, status |-> 409,
                            detail |-> "Slug already taken.", origin |-> 0]
       ELSE /\ requests' = [requests EXCEPT ![r] =
                   [IdleRequest EXCEPT !.pc = "create_scope", !.route = "create_community",
                                       !.body = body]]
            /\ UNCHANGED response
    /\ UNCHANGED <<members, identity_claims, bindings, relay_messages, provenance, calls, dispatched, scopes, events>>

\* Mutant: the scopes table without UNIQUE on slug.
create_community_create_scope_without_unique(r) ==
    /\ requests[r].pc = "create_scope"
    /\ Cardinality(scopes) < NumScopes
    /\ LET req == requests[r]
       IN  /\ create_scope(req.body.name, req.body.slug, req.body.owner_email)
           /\ requests' = [requests EXCEPT ![r] =
                  [req EXCEPT !.pc = "emit",
                              !.created = ScopeId(Cardinality(scopes) + 1),
                              !.scope = Some([id |-> ScopeId(Cardinality(scopes) + 1)])]]
           /\ UNCHANGED response
    /\ UNCHANGED <<members, identity_claims, bindings, relay_messages, provenance, calls, dispatched, events>>

\* await store.create_scope(...): the IntegrityError of a slug taken meanwhile is
\* not caught, and the framework answers 500.
create_community_create_scope(r) ==
    /\ requests[r].pc = "create_scope"
    /\ get_scope_by_slug(requests[r].body.slug) # {} \/ Cardinality(scopes) < NumScopes
    /\ LET req == requests[r]
       IN  IF get_scope_by_slug(req.body.slug) # {}
           THEN /\ respond(r, 500, "Internal Server Error")
                /\ UNCHANGED scopes
           ELSE /\ create_scope(req.body.name, req.body.slug, req.body.owner_email)
                /\ requests' = [requests EXCEPT ![r] =
                       [req EXCEPT !.pc = "emit",
                                   !.created = ScopeId(Cardinality(scopes) + 1),
                                   !.scope = Some([id |-> ScopeId(Cardinality(scopes) + 1)])]]
                /\ UNCHANGED response
    /\ UNCHANGED <<members, identity_claims, bindings, relay_messages, provenance, calls, dispatched, events>>

create_community_emit(r) ==
    /\ requests[r].pc = "emit" /\ requests[r].route = "create_community"
    /\ LET req == requests[r]
       IN  emit_provenance(route_provenance(req, "scope.created", req.body.owner_email, None,
               [name |-> req.body.name, slug |-> req.body.slug]))
    /\ respond(r, 201, "created")
    /\ UNCHANGED <<members, identity_claims, bindings, relay_messages, calls, dispatched, scopes, events>>

\* POST /members, to its first store call.
register_member(r, body) ==
    /\ next_request(r)
    /\ LET found == get_scope_by_slug(body.scope_slug)
       IN  IF found = {}
           THEN /\ requests' = requests
                /\ response' = [route |-> "register_member", body |-> body, status |-> 404,
                                detail |-> "Community not found.", origin |-> 0]
           ELSE /\ \E scope \in found :
                      requests' = [requests EXCEPT ![r] =
                          [IdleRequest EXCEPT !.pc = "create_member",
                                              !.route = "register_member", !.body = body,
                                              !.scope = Some(scope)]]
                /\ UNCHANGED response
    /\ UNCHANGED <<members, identity_claims, bindings, relay_messages, provenance, calls, dispatched, scopes, events>>

register_member_create(r) ==
    /\ requests[r].pc = "create_member"
    /\ Cardinality(members) < MaxMembers
    /\ LET req == requests[r]
       IN  /\ create_member(req.scope[1].id, req.body.display_name, req.body.email,
                            req.body.platform_handles)
           /\ requests' = [requests EXCEPT ![r] =
                  [req EXCEPT !.pc = "emit",
                              !.created = uuid4("member", Cardinality(members) + 1)]]
    /\ UNCHANGED <<bindings, relay_messages, provenance, calls, dispatched, scopes, events, response>>

register_member_emit(r) ==
    /\ requests[r].pc = "emit" /\ requests[r].route = "register_member"
    /\ LET req == requests[r]
       IN  emit_provenance(route_provenance(req, "member.registered", req.body.email,
               req.created,
               [display_name |-> req.body.display_name,
                platforms_claimed |-> {kv[1] : kv \in req.body.platform_handles}]))
    /\ respond(r, 201, "created")
    /\ UNCHANGED <<members, identity_claims, bindings, relay_messages, calls, dispatched, scopes, events>>

\* POST /bindings, to its first store call.
register_binding(r, body) ==
    /\ next_request(r)
    /\ LET found == get_scope_by_slug(body.scope_slug)
           refused(status, detail) ==
               /\ requests' = requests
               /\ response' = [route |-> "register_binding", body |-> body,
                               status |-> status, detail |-> detail, origin |-> 0]
       IN  IF found = {}
           THEN refused(404, "Community not found.")
           ELSE \E scope \in found :
                  IF scope.owner_id # body.owner_email
                  THEN refused(403, "Only the community owner can register bindings.")
                  ELSE /\ requests' = [requests EXCEPT ![r] =
                              [IdleRequest EXCEPT !.pc = "upsert_binding",
                                                  !.route = "register_binding",
                                                  !.body = body, !.scope = Some(scope)]]
                       /\ UNCHANGED response
    /\ UNCHANGED <<members, identity_claims, bindings, relay_messages, provenance, calls, dispatched, scopes, events>>

register_binding_upsert(r) ==
    /\ requests[r].pc = "upsert_binding"
    /\ LET req == requests[r]
       IN  /\ upsert_binding(req.scope[1].id, req.body.platform,
                             {<<"default_channel_id", req.body.default_channel_id>>})
           /\ requests' = [requests EXCEPT ![r] =
                  [req EXCEPT !.pc = "emit", !.created = uuid4("binding", Len(bindings) + 1)]]
    /\ UNCHANGED <<members, identity_claims, relay_messages, provenance, calls, dispatched, scopes, events, response>>

register_binding_emit(r) ==
    /\ requests[r].pc = "emit" /\ requests[r].route = "register_binding"
    /\ LET req == requests[r]
       IN  emit_provenance(route_provenance(req, "binding.registered", req.body.owner_email,
               req.created,
               [platform |-> req.body.platform, channel |-> req.body.default_channel_id]))
    /\ respond(r, 201, "created")
    /\ UNCHANGED <<members, identity_claims, bindings, relay_messages, calls, dispatched, scopes, events>>

\* ---- agents/relay.py: handle_verification ---------------------------------------------
NotRecognized == "I don't recognize this handle. Register at the community surface first."
Verified == "Verified! You're now linked as {member.display_name} in this community."
DidNotWork == "That code didn't work. Double-check it or re-register at the surface."

\* The text handle_verification returns for the surface's response.
verification_reply(status, detail) ==
    IF status = 200 THEN Verified ELSE DidNotWork

\* The response of /members/verify reaches the handle_verification that posted it,
\* and on_message replies with its text.
deliver(origin, status, detail) ==
    events' = IF origin = 0 THEN events
              ELSE [events EXCEPT ![origin].pc = "done", ![origin].outcome = "returned",
                                  ![origin].reply = verification_reply(status, detail)]

\* ---- surface/app.py: POST /members/verify ---------------------------------------------
\* Mutant: a claim that does not exist answered apart from a wrong or used code.
verify_handle_refused_by_reason(body) ==
    IF \E ic \in identity_claims : ic.member_id = body.member_id /\ ic.platform = body.platform
    THEN [status |-> 400, detail |-> "Invalid or already-used code."]
    ELSE [status |-> 404, detail |-> "No such claim."]

\* if not verified: raise HTTPException(status_code=400, ...)
verify_handle_refused(body) == [status |-> 400, detail |-> "Invalid or already-used code."]

\* The request up to the SELECT of verify_identity_claim.  origin: the event whose
\* handle_verification posted it, 0 for any other client.
verify_handle(r, body, origin) ==
    /\ next_request(r)
    /\ IF verify_identity_claim_select(body.member_id, body.platform, body.code) = {}
       THEN LET refusal == verify_handle_refused(body)
            IN  /\ requests' = requests
                /\ response' = [route |-> "verify_handle", body |-> body,
                                status |-> refusal.status, detail |-> refusal.detail,
                                origin |-> origin]
                /\ deliver(origin, refusal.status, refusal.detail)
       ELSE /\ requests' = [requests EXCEPT ![r] =
                   [IdleRequest EXCEPT !.pc = "update", !.route = "verify_handle",
                                       !.body = body, !.origin = origin]]
            /\ events' = IF origin = 0 THEN events
                         ELSE [events EXCEPT ![origin].pc = "await_response"]
            /\ UNCHANGED response
    /\ UNCHANGED <<members, identity_claims, bindings, relay_messages, provenance, calls, dispatched, scopes>>

\* The UPDATE and commit of verify_identity_claim, and the 200.
verify_handle_update(r) ==
    /\ requests[r].pc = "update"
    /\ verify_identity_claim_update(requests[r].body.member_id, requests[r].body.platform)
    /\ respond(r, 200, "verified")
    /\ deliver(requests[r].origin, 200, "verified")
    /\ UNCHANGED <<members, bindings, relay_messages, provenance, calls, dispatched, scopes>>

\* ---- agents/discord_agent.py: on_message ---------------------------------------------
\* COMMUNITY_SCOPE_ID: the agent serves the first community created.
SCOPE_ID == ScopeId(1)

\* The handler of a message has returned or raised.
handled(e) ==
    \/ events[e].pc = "done"
    \/ events[e].pc = "relay" /\ calls[events[e].call].pc = "done"

next_event(e) ==
    /\ events[e].pc = "idle" \/ handled(e)
    /\ \A k \in 1..(e - 1) : ~(events[k].pc = "idle" \/ handled(k))

\* The messages of human authors in watched channels (lines 57-62 drop the others
\* before anything is read).
Messages ==
    {[content |-> c, author |-> "alice", channel |-> "D1", id |-> m] :
        c \in {ThoughtA, VerifyIssued, VerifyWrong, VerifyMalformed}, m \in MsgIds}
    \cup {[content |-> VerifyIssued, author |-> "mallory", channel |-> "D1", id |-> m] :
            m \in MsgIds}

\* Mutant: the relay pipeline run without the command check before it.
on_message_without_command_check(e, c, message) ==
    /\ next_event(e)
    /\ relay_message(c, SCOPE_ID, message.content, "discord", message.channel, message.id, message.author)
    /\ events' = [events EXCEPT ![e] =
           [IdleEvent EXCEPT !.pc = "relay", !.content = message.content,
                             !.author_handle = message.author, !.call = c]]
    /\ UNCHANGED <<scopes, requests, response>>

\* on_message from line 64: handle_verification up to its first await, or, when the
\* content is no command, relay_message up to its own.
on_message(e, c, message) ==
    /\ next_event(e)
    /\ LET ev == [IdleEvent EXCEPT !.content = message.content,
                                   !.author_handle = message.author]
           match == verify_match(message.content)
           found == get_member_by_handle("discord", message.author, SCOPE_ID)
       IN  IF match = Nothing
           THEN /\ relay_message(c, SCOPE_ID, message.content, "discord", message.channel, message.id, message.author)
                /\ events' = [events EXCEPT ![e] = [ev EXCEPT !.pc = "relay", !.call = c]]
           ELSE /\ c = 1
                /\ IF found = {}
                   THEN events' = [events EXCEPT ![e] =
                            [ev EXCEPT !.pc = "done", !.outcome = "returned",
                                       !.reply = NotRecognized]]
                   ELSE \E member \in found :
                            events' = [events EXCEPT ![e] =
                                [ev EXCEPT !.pc = "post", !.member = Some(member),
                                           !.code = match[1]]]
                /\ UNCHANGED <<members, identity_claims, bindings, relay_messages, provenance, calls, dispatched>>
    /\ UNCHANGED <<scopes, requests, response>>

\* await client.post(f"{surface_base_url}/members/verify", ...) reaches the surface.
handle_verification_post(e, r) ==
    /\ events[e].pc = "post"
    /\ verify_handle(r, [member_id |-> events[e].member[1].id, platform |-> "discord",
                          code |-> events[e].code], e)

\* The post raises (the surface cannot be reached): handle_verification and
\* on_message have no except clause.
handle_verification_post_fails(e) ==
    /\ events[e].pc = "post"
    /\ events' = [events EXCEPT ![e].pc = "done", ![e].outcome = "raised"]
    /\ UNCHANGED <<members, identity_claims, bindings, relay_messages, provenance, calls, dispatched, scopes, requests, response>>

\* The relay_message calls the agent makes in SpecSurface.
SurfaceCalls == 1..1

\* The surface and the agent running together, as main() starts them.
NextSurface ==
    \/ /\ \E r \in Requests, body \in CommunityBodies : create_community(r, body)
       /\ UNCHANGED evaluation
    \/ /\ \E r \in Requests : create_community_create_scope(r)
       /\ UNCHANGED evaluation
    \/ /\ \E r \in Requests : create_community_emit(r)
       /\ UNCHANGED evaluation
    \/ /\ \E r \in Requests, body \in MemberBodies : register_member(r, body)
       /\ UNCHANGED evaluation
    \/ /\ \E r \in Requests : register_member_create(r)
       /\ UNCHANGED evaluation
    \/ /\ \E r \in Requests : register_member_emit(r)
       /\ UNCHANGED evaluation
    \/ /\ \E r \in Requests, body \in VerifyBodies : verify_handle(r, body, 0)
       /\ UNCHANGED evaluation
    \/ /\ \E r \in Requests : verify_handle_update(r)
       /\ UNCHANGED evaluation
    \/ /\ \E r \in Requests, body \in BindingBodies : register_binding(r, body)
       /\ UNCHANGED evaluation
    \/ /\ \E r \in Requests : register_binding_upsert(r)
       /\ UNCHANGED evaluation
    \/ /\ \E r \in Requests : register_binding_emit(r)
       /\ UNCHANGED evaluation
    \/ /\ \E e \in Events, c \in SurfaceCalls, message \in Messages : on_message(e, c, message)
       /\ UNCHANGED evaluation
    \/ /\ \E e \in Events, r \in Requests : handle_verification_post(e, r)
       /\ UNCHANGED evaluation
    \/ /\ \E e \in Events : handle_verification_post_fails(e)
       /\ UNCHANGED evaluation
    \/ \E c \in SurfaceCalls : relay_step(c)

SpecSurface == Init /\ [][NextSurface]_vars

\* ---- agents/relay.py: the pure functions on their own ------------------------------
\* How far the lengths of the texts drawn lie around the thresholds of the code, and
\* how many messages a summary is made of.
Margin == 2
MaxMessages == 4

\* Contents around MIN_RELAY_LENGTH: blanks or none before and behind, a first
\* character, a run of one character, a last character.
ShouldRelayInputs ==
    {before \o <<first>> \o Rep(fill, n - 2) \o <<last>> \o behind :
        before \in {<<>>, <<32, 9>>}, behind \in {<<>>, <<10>>},
        first \in {97, _RELAY_PREFIX, 9728, 32}, fill \in {97, 128512, 32, 129696},
        last \in {97, 10175, 10},
        n \in (MIN_RELAY_LENGTH - Margin)..(MIN_RELAY_LENGTH + Margin)}

\* Contents around MAX_RELAY_CONTENT: a run of one character, with or without a line
\* break at or near the cut.
FormatRelayInputs ==
    {[i \in 1..n |-> IF i = br THEN 10 ELSE 97] :
        n \in {0} \cup (MAX_RELAY_CONTENT - Margin)..(MAX_RELAY_CONTENT + Margin + 3),
        br \in {0, 1, MAX_RELAY_CONTENT - 3, MAX_RELAY_CONTENT - 2, MAX_RELAY_CONTENT}}

Authors == {"alice", "bob", "carol", "dave"}

\* The message lists of a thread: every sequence of authors up to MaxMessages long.
FormatSummaryInputs ==
    UNION {[1..n -> {[author |-> a] : a \in Authors}] : n \in 1..MaxMessages}

Evaluations ==
    {[NoEvaluation EXCEPT !.fn = "should_relay", !.content = c] : c \in ShouldRelayInputs}
    \cup {[NoEvaluation EXCEPT !.fn = "format_relay", !.content = c, !.author = a,
                               !.source_platform = p] :
            c \in FormatRelayInputs, a \in {"alice", "Alice"}, p \in {"discord", "chatapp"}}
    \cup {[NoEvaluation EXCEPT !.fn = "format_summary", !.messages = m,
                               !.source_platform = "discord", !.channel = "general"] :
            m \in FormatSummaryInputs}

InitText ==
    /\ members = {}
    /\ identity_claims = {}
    /\ bindings = <<>>
    /\ relay_messages = {}
    /\ provenance = {}
    /\ calls = [c \in AllCalls |-> IdleCall]
    /\ dispatched = [c \in AllCalls |-> <<>>]
    /\ scopes = {}
    /\ requests = [r \in Requests |-> IdleRequest]
    /\ response = NoResponse
    /\ events = [e \in Events |-> IdleEvent]
    /\ evaluation \in Evaluations

store_vars == <<members, identity_claims, bindings, relay_messages, provenance, calls, dispatched, scopes, requests, response, events>>

should_relay_returns ==
    /\ evaluation.fn = "should_relay" /\ evaluation.result = Nothing
    /\ evaluation' = [evaluation EXCEPT !.result = Some(should_relay(evaluation.content))]
    /\ UNCHANGED store_vars

format_relay_returns ==
    /\ evaluation.fn = "format_relay" /\ evaluation.result = Nothing
    /\ evaluation' = [evaluation EXCEPT !.result =
           Some(format_relay(evaluation.content, evaluation.author, evaluation.source_platform))]
    /\ UNCHANGED store_vars

format_summary_returns ==
    /\ evaluation.fn = "format_summary" /\ evaluation.result = Nothing
    /\ \E text \in format_summary(evaluation.messages, evaluation.source_platform, evaluation.channel) :
          evaluation' = [evaluation EXCEPT !.result = Some(text)]
    /\ UNCHANGED store_vars

NextText ==
    \/ should_relay_returns
    \/ format_relay_returns
    \/ format_summary_returns

\* The pure functions of agents/relay.py, each called once on an input drawn at the start.
SpecText == InitText /\ [][NextText]_vars

\* ---- surface/app.py: communities being created ----------------------------------------
\* Two founders asking for the same slug, and a third community.
CommunityRequests ==
    CommunityBodies
    \cup {[name |-> "Swarm", slug |-> "hive", owner_email |-> "other@example.org"],
          [name |-> "Nest", slug |-> "nest", owner_email |-> "owner@example.org"]}

NextCommunities ==
    \/ /\ \E r \in Requests, body \in CommunityRequests : create_community(r, body)
       /\ UNCHANGED evaluation
    \/ /\ \E r \in Requests : create_community_create_scope(r)
       /\ UNCHANGED evaluation
    \/ /\ \E r \in Requests : create_community_emit(r)
       /\ UNCHANGED evaluation

SpecCommunities == Init /\ [][NextCommunities]_vars

\* ---- identities: registration, verification and the relay's lookup -------------------
\* Members of either scope register under one handle, the first of them verifies,
\* and messages of that handle and of a stranger's are relayed in either scope.
NextIdentity ==
    \/ /\ Cardinality(members) < MaxMembers + 1
       /\ \E s \in Scopes, d \in DisplayNames, h \in PlatformHandles :
             create_member(s, d, "alice@example.org", h)
       /\ UNCHANGED <<bindings, relay_messages, provenance, calls, dispatched, surface_vars>>
    \/ /\ bindings = <<>>
       /\ upsert_binding(ScopeId(1), "chatapp", {<<"default_channel_id", "C1">>})
       /\ UNCHANGED <<members, identity_claims, relay_messages, provenance, calls, dispatched, surface_vars>>
    \/ /\ \E r \in Requests :
             verify_handle(r, [member_id |-> uuid4("member", 1), platform |-> "discord",
                               code |-> Chars("a3f9c2d1")], 0)
       /\ UNCHANGED evaluation
    \/ /\ \E r \in Requests : verify_handle_update(r)
       /\ UNCHANGED evaluation
    \/ /\ \E c \in SurfaceCalls, s \in Scopes, ch \in Channels, m \in MsgIds, h \in {"alice", "mallory"} :
             relay_message(c, s, ThoughtA, "discord", ch, m, h)
       /\ UNCHANGED surface_vars
    \/ \E c \in SurfaceCalls : relay_step(c)

SpecIdentity == Init /\ [][NextIdentity]_vars

\* ---- core/store.py: verify_identity_claim among other claims -------------------------
\* The handles a member claims on registration: one on Discord, or one there and one
\* on the chat application.
IdentityHandles == {{<<"discord", "alice">>}, {<<"discord", "alice">>, <<"chatapp", "alice">>}}

\* What is posted to /members/verify: for either member and platform the issued
\* code, and for the first member a wrong one.
IdentityVerifyBodies ==
    {[member_id |-> uuid4("member", i), platform |-> p, code |-> Chars("a3f9c2d1")] :
        i \in 1..(MaxMembers + 1), p \in {"discord", "chatapp"}}
    \cup {[member_id |-> uuid4("member", 1), platform |-> "discord", code |-> Chars("00000000")]}

\* Members with one or two claims register and verify them, requests overlapping,
\* in a community that has a destination and relays a message.
NextVerify ==
    \/ /\ Cardinality(members) < MaxMembers + 1
       /\ \E d \in DisplayNames, h \in IdentityHandles :
             create_member(ScopeId(1), d, "alice@example.org", h)
       /\ UNCHANGED <<bindings, relay_messages, provenance, calls, dispatched, surface_vars>>
    \/ /\ bindings = <<>>
       /\ upsert_binding(ScopeId(1), "chatapp", {<<"default_channel_id", "C1">>})
       /\ UNCHANGED <<members, identity_claims, relay_messages, provenance, calls, dispatched, surface_vars>>
    \/ /\ \E r \in Requests, body \in IdentityVerifyBodies : verify_handle(r, body, 0)
       /\ UNCHANGED evaluation
    \/ /\ \E r \in Requests : verify_handle_update(r)
       /\ UNCHANGED evaluation
    \/ /\ \E c \in SurfaceCalls, ch \in Channels, m \in MsgIds, h \in Handles :
             /\ members # {}
             /\ relay_message(c, ScopeId(1), ThoughtA, "discord", ch, m, h)
       /\ UNCHANGED surface_vars
    \/ \E c \in SurfaceCalls : relay_step(c)

SpecVerify == Init /\ [][NextVerify]_vars

\* ---- the system's own texts coming back in -----------------------------------------
\* The summaries of a short thread, as format_summary renders them.
SummaryTexts ==
    UNION {format_summary(m, "discord", "general") :
              m \in UNION {[1..n -> {[author |-> a] : a \in {"alice", "bob"}}] : n \in 1..2}}

\* A text that a dispatch of call k delivered is read by the connector of a platform
\* and handed to relay_message as a new inbound message.
relay_message_echo(c, k, i, source_platform, source_channel, source_message_id, author_handle) ==
    /\ i \in 1..Len(dispatched[k])
    /\ dispatched[k][i].sent
    /\ relay_message(c, ScopeId(1), dispatched[k][i].content, source_platform, source_channel, source_message_id, author_handle)

\* One community with a member and destinations; the pipeline receives thoughts,
\* the texts it delivered itself, and thread summaries.
NextLoop ==
    \/ /\ Cardinality(members) < MaxMembers
       /\ \E d \in DisplayNames, h \in PlatformHandles :
             create_member(ScopeId(1), d, "alice@example.org", h)
       /\ UNCHANGED <<bindings, relay_messages, provenance, calls, dispatched, surface_vars>>
    \/ /\ \E b \in {x \in BindingInputs : x[2] # {}} : upsert_binding(ScopeId(1), b[1], b[2])
       /\ UNCHANGED <<members, identity_claims, relay_messages, provenance, calls, dispatched, surface_vars>>
    \/ /\ \E c \in Calls, content \in {ThoughtA, ThoughtB}, ch \in Channels, m \in MsgIds, h \in Handles :
             relay_message(c, ScopeId(1), content, "discord", ch, m, h)
       /\ UNCHANGED surface_vars
    \/ /\ \E c \in Calls, k \in Calls, i \in 1..MaxBindings, p \in {"discord", "chatapp"},
             ch \in Channels, m \in MsgIds, h \in Handles :
             relay_message_echo(c, k, i, p, ch, m, h)
       /\ UNCHANGED surface_vars
    \/ /\ \E c \in Calls, text \in SummaryTexts, p \in {"discord", "chatapp"},
             ch \in Channels, m \in MsgIds, h \in Handles :
             relay_message(c, ScopeId(1), text, p, ch, m, h)
       /\ UNCHANGED surface_vars
    \/ \E c \in Calls : relay_step(c)

SpecLoop == Init /\ [][NextLoop]_vars

\* ---- properties --------------------------------------------------------------
started(c) == calls[c].pc # "idle"
accepted(c) == started(c) /\ should_relay(calls[c].content)
ended(c) == calls[c].pc = "done"
inserted(c) == calls[c].pc \in {"get_bindings", "fanout", "done"} /\ accepted(c)

same_key(c1, c2) ==
    /\ calls[c1].source_platform = calls[c2].source_platform
    /\ calls[c1].source_message_id = calls[c2].source_message_id

key_rows(source_platform, source_message_id) ==
    {r \in relay_messages :
        r.source_platform = source_platform /\ r.source_message_id = source_message_id}

scope_key_rows(scope_id, source_platform, source_message_id) ==
    {r \in key_rows(source_platform, source_message_id) : r.scope_id = scope_id}

\* C1: of the calls that pass the filter with the same (scope, source platform,
\* native message id) and different content, the store keeps exactly one
\* RelayMessage for that key, with the content of the first call, and no call raises.
C1_IdempotentReceipt ==
    \A c1 \in AllCalls, c2 \in AllCalls :
        (/\ c1 < c2 /\ ended(c1) /\ ended(c2) /\ accepted(c1) /\ accepted(c2)
         /\ same_key(c1, c2) /\ calls[c1].scope_id = calls[c2].scope_id
         /\ calls[c1].content # calls[c2].content
         /\ ~\E c0 \in AllCalls : c0 < c1 /\ accepted(c0) /\ same_key(c0, c1)
                                    /\ calls[c0].scope_id = calls[c1].scope_id)
        => LET rows == scope_key_rows(calls[c1].scope_id, calls[c1].source_platform,
                                      calls[c1].source_message_id)
           IN  /\ Cardinality(rows) = 1
               /\ \A r \in rows : r.content = calls[c1].content
               /\ calls[c1].outcome = "returned" /\ calls[c2].outcome = "returned"

\* C2: whatever the interleaving of the calls, the store never holds two
\* RelayMessages with the same (source platform, native message id), holds exactly
\* one once a call for that key is past its insert, and no call ends in an error.
C2_RacingDuplicates ==
    /\ \A r1 \in relay_messages, r2 \in relay_messages :
          (r1.source_platform = r2.source_platform
              /\ r1.source_message_id = r2.source_message_id) => r1 = r2
    /\ \A c \in AllCalls :
          /\ inserted(c) =>
                Cardinality(key_rows(calls[c].source_platform, calls[c].source_message_id)) = 1
          /\ calls[c].outcome # "raised"

\* Two calls for one key have both ended, and the stored row is the message of the
\* call that started second: it inserted while the first was between its steps.
C2_Witness ==
    \E c1 \in AllCalls, c2 \in AllCalls :
        /\ c1 < c2 /\ ended(c1) /\ ended(c2) /\ accepted(c1) /\ accepted(c2)
        /\ same_key(c1, c2)
        /\ calls[c2].msg[1] \in relay_messages
        /\ calls[c1].msg[1] \notin relay_messages

RECURSIVE eligible_of(_, _)
eligible_of(bs, source_platform) ==
    IF bs = <<>> THEN <<>>
    ELSE (IF eligible(Head(bs), source_platform) THEN <<Head(bs)>> ELSE <<>>)
             \o eligible_of(Tail(bs), source_platform)

\* The bindings table grows at its end: what a call read is a prefix of it.
snapshots(scope_id) ==
    {SelectSeq(SubSeq(bindings, 1, n), LAMBDA b : b.scope_id = scope_id /\ b.active) :
        n \in 0..Len(bindings)}

destinations(bs) == [i \in 1..Len(bs) |->
    [platform |-> bs[i].platform, channel_id |-> dict_get(bs[i].config, "default_channel_id")]]

attempts(c) == [i \in 1..Len(dispatched[c]) |->
    [platform |-> dispatched[c][i].platform, channel_id |-> dispatched[c][i].channel_id]]

relayed_records(c) ==
    {p \in provenance :
        /\ p.action = "message.relayed"
        /\ calls[c].msg # Nothing /\ p.subject_id = calls[c].msg[1].id}

RECURSIVE succeeded(_)
\* The platforms of the dispatch calls that returned, in order.
succeeded(log) ==
    IF log = <<>> THEN <<>>
    ELSE (IF Head(log).ok THEN <<Head(log).platform>> ELSE <<>>) \o succeeded(Tail(log))

\* C4: a call has no "message.relayed" record before it ends; once it has ended
\* it has one exactly if one of its dispatches succeeded, never two, and the
\* record lists the platforms of the successful dispatches and no other.
C4_RelayedRecord ==
    \A c \in AllCalls :
        /\ Cardinality(relayed_records(c)) <= 1
        /\ ~ended(c) => relayed_records(c) = {}
        /\ (ended(c) /\ accepted(c)) =>
              /\ (relayed_records(c) # {}) <=> (succeeded(dispatched[c]) # <<>>)
              /\ \A p \in relayed_records(c) :
                    p.detail.dispatched_to = succeeded(dispatched[c])

\* A call has ended with one failed and one successful dispatch, and its record.
C4_Witness ==
    \E c \in AllCalls :
        /\ ended(c) /\ relayed_records(c) # {}
        /\ \E i \in 1..Len(dispatched[c]) : ~dispatched[c][i].ok
        /\ \E i \in 1..Len(dispatched[c]) : dispatched[c][i].ok

\* C5: every step of a call whose content should_relay rejects is its return of
\* None, and it changes no table and dispatches nothing.
C5_NoOpPath ==
    [][\A c \in AllCalls :
        (calls'[c] # calls[c] /\ ~should_relay(calls'[c].content)) =>
            /\ calls'[c].pc = "done" /\ calls'[c].outcome = "returned"
            /\ calls'[c].result = Nothing
            /\ UNCHANGED <<members, identity_claims, bindings, relay_messages,
                           provenance, dispatched>>]_vars

\* A call with rejected content has returned None while the store holds a binding
\* it could have dispatched to.
C5_Witness ==
    \E c \in AllCalls :
        /\ ended(c) /\ ~should_relay(calls[c].content) /\ calls[c].result = Nothing
        /\ \E i \in 1..Len(bindings) :
              bindings[i].scope_id = calls[c].scope_id
                  /\ eligible(bindings[i], calls[c].source_platform)

\* C6: no dispatch call of a relay_message call names the call's source platform,
\* and no "message.relayed" record lists the platform it says the message came from.
C6_NoSelfEcho ==
    /\ \A c \in AllCalls : \A i \in 1..Len(dispatched[c]) :
          dispatched[c][i].platform # calls[c].source_platform
    /\ \A p \in provenance :
          p.action = "message.relayed" =>
              \A i \in 1..Len(p.detail.dispatched_to) :
                  p.detail.dispatched_to[i] # p.source_platform

\* A call dispatched to the binding registered after a binding of its own source
\* platform in its scope, and recorded the relay.
C6_Witness ==
    \E c \in AllCalls :
        /\ ended(c) /\ relayed_records(c) # {}
        /\ Len(bindings) >= 2
        /\ bindings[1].scope_id = calls[c].scope_id
        /\ bindings[1].platform = calls[c].source_platform
        /\ dict_get(bindings[1].config, "default_channel_id") # None
        /\ bindings[2].scope_id = calls[c].scope_id
        /\ dispatched[c] # <<>> /\ dispatched[c][1].platform = bindings[2].platform

received_records(scope_id, source_platform, source_message_id) ==
    {p \in provenance :
        /\ p.action = "message.received" /\ p.scope_id = scope_id
        /\ p.source_platform = source_platform /\ p.subject_id = source_message_id}

\* C7: the step of a call that inserts its RelayMessage finds the call's
\* "message.received" record written; each of its dispatch steps finds the
\* RelayMessage of its key stored; the step that writes its "message.relayed"
\* record finds the fan-out finished and ends the call; and a call that has ended
\* dispatches nothing more.
C7_StepOrder ==
    [][\A c \in AllCalls :
        /\ (calls[c].pc = "save" /\ calls'[c].pc # "save") =>
              \E p \in provenance :
                  /\ p.id = calls[c].msg[1].provenance_id
                  /\ p.action = "message.received"
                  /\ p.subject_id = calls[c].source_message_id
        /\ dispatched'[c] # dispatched[c] =>
              /\ calls[c].pc = "fanout"
              /\ key_rows(calls[c].source_platform, calls[c].source_message_id) # {}
        /\ (\E p \in provenance' \ provenance :
                /\ p.action = "message.relayed"
                /\ calls[c].msg # Nothing /\ p.subject_id = calls[c].msg[1].id) =>
              /\ calls[c].pc = "fanout" /\ calls[c].todo = <<>>
              /\ calls'[c].pc = "done" /\ dispatched'[c] = dispatched[c]
        /\ calls[c].pc = "done" =>
              /\ dispatched'[c] = dispatched[c]
              /\ calls'[c] = calls[c]]_vars

\* Two calls have ended, each with its three records and a dispatch, and the one
\* that started second read the bindings while the first was between its steps.
C7_Witness ==
    \E c1 \in AllCalls, c2 \in AllCalls :
        /\ c1 < c2 /\ ended(c1) /\ ended(c2)
        /\ relayed_records(c1) # {} /\ relayed_records(c2) # {}
        /\ Len(dispatched[c1]) > Len(dispatched[c2])
        /\ calls[c2].msg[1] \in relay_messages

\* C8: each inbound message that passed the filter, identified by scope, source
\* platform and native message id, has exactly one "message.received" record.
C8_OneReceivedPerMessage ==
    \A c \in AllCalls :
        (accepted(c) /\ calls[c].pc # "emit_received") =>
            Cardinality(received_records(calls[c].scope_id, calls[c].source_platform,
                                         calls[c].source_message_id)) = 1

\* C9: the provenance_id of every stored RelayMessage is the id of exactly one
\* Provenance record, which is a "message.received" record of the message's scope
\* about the message's native id.
C9_ProvenanceLink ==
    \A r \in relay_messages :
        LET linked == {p \in provenance : p.id = r.provenance_id}
        IN  /\ Cardinality(linked) = 1
            /\ \A p \in linked :
                  /\ p.action = "message.received"
                  /\ p.scope_id = r.scope_id
                  /\ p.subject_id = r.source_message_id

\* A RelayMessage is stored while the table holds the receipt records of two
\* calls and a "message.relayed" record.
C9_Witness ==
    /\ relay_messages # {}
    /\ \E p1 \in provenance, p2 \in provenance, p3 \in provenance :
          /\ p1.action = "message.received" /\ p2.action = "message.received"
          /\ p1 # p2 /\ p3.action = "message.relayed"

\* C10: a call that passed the filter and returned has returned the RelayMessage
\* the store holds for its (source platform, native message id).
C10_ReturnsPersisted ==
    \A c \in AllCalls :
        (accepted(c) /\ calls[c].outcome = "returned") =>
            /\ calls[c].result # Nothing
            /\ \E r \in key_rows(calls[c].source_platform, calls[c].source_message_id) :
                  /\ r.id = calls[c].result[1].id
                  /\ r.provenance_id = calls[c].result[1].provenance_id
                  /\ r.content = calls[c].result[1].content

\* The row the store holds for the RelayMessage a call built.
stored_message(c) == {r \in relay_messages : calls[c].msg # Nothing /\ r.id = calls[c].msg[1].id}

\* C11: once a relay_message call has ended, the relay_count of the RelayMessage it
\* stored is the number of dispatches of that call that succeeded.
C11_RelayCountTracksDeliveries ==
    \A c \in AllCalls :
        (accepted(c) /\ ended(c)) =>
            \A r \in stored_message(c) : r.relay_count = Len(succeeded(dispatched[c]))

\* C17: a dispatch to a platform that has no handler counts as failed: it is not
\* logged as a success, the platform is in no "message.relayed" record, and a call
\* whose dispatches all went to such platforms leaves no "message.relayed" record.
C17_UnknownPlatformFails ==
    /\ \A c \in AllCalls : \A i \in 1..Len(dispatched[c]) :
          dispatched[c][i].platform \notin Registry \cup {"discord"} => ~dispatched[c][i].ok
    /\ \A p \in provenance :
          p.action = "message.relayed" =>
              \A i \in 1..Len(p.detail.dispatched_to) :
                  p.detail.dispatched_to[i] \in Registry \cup {"discord"}
    /\ \A c \in AllCalls : calls[c].outcome # "raised"

\* C18: the active bindings of a scope hold at most one binding per platform, and
\* it carries the configuration of the latest upsert_binding for that platform.
C18_BindingUpsertKeyed ==
    \A s \in Scopes :
        LET bs == get_active_bindings(s)
        IN  \A i \in 1..Len(bs), j \in 1..Len(bs) :
                bs[i].platform = bs[j].platform => i = j

\* C12: every step of the store, the surface and the agent keeps every Provenance
\* record there is, unchanged: the table only grows.
C12_ProvenanceAppendOnly ==
    [][/\ provenance \subseteq provenance'
       /\ \A p \in provenance, q \in provenance' : q.id = p.id => q = p]_vars

\* The table holds the records of a scope creation, a member registration, a binding
\* registration, a receipt and a relay, and the member's claim has been verified.
C12_Witness ==
    /\ \A a \in {"scope.created", "member.registered", "binding.registered",
                  "message.received", "message.relayed"} :
          \E p \in provenance : p.action = a
    /\ \E ic \in identity_claims : ic.verified

\* The claim rows of (member, platform): the primary key leaves at most one.
claims_of(member_id, platform) ==
    {ic \in identity_claims : ic.member_id = member_id /\ ic.platform = platform}

\* C13: a verification request sets out to mark the claim only when it found the
\* claim of its (member, platform) unverified with the code it presents, compared
\* in upper case, and then answers success with the claim verified; it is refused
\* only when no such claim was there; a refusal changes no claim; and a verified
\* claim stays as it is.  So the first presentation of the issued code succeeds
\* and every presentation after the claim is verified fails.
C13_OneTimeVerification ==
    [][/\ \A ic \in identity_claims : ic.verified => ic \in identity_claims'
       /\ \A r \in Requests :
             /\ (requests[r].pc = "idle" /\ requests'[r].pc = "update") =>
                   \E ic \in claims_of(requests'[r].body.member_id, requests'[r].body.platform) :
                       ~ic.verified /\ ic.verification_code = upper(requests'[r].body.code)
             /\ (requests[r].pc = "update" /\ requests'[r].pc = "idle") =>
                   /\ response'.status = 200 /\ response'.body = requests[r].body
                   /\ \E ic \in identity_claims' :
                         /\ ic.member_id = requests[r].body.member_id
                         /\ ic.platform = requests[r].body.platform
                         /\ ic.verified
       /\ (response' # response /\ response'.route = "verify_handle" /\ response'.status # 200) =>
             /\ identity_claims' = identity_claims
             /\ ~\E ic \in claims_of(response'.body.member_id, response'.body.platform) :
                   ~ic.verified /\ ic.verification_code = upper(response'.body.code)]_vars

\* The claim is verified and the surface has just refused the issued code, typed in
\* lower case, for it.
C13_Witness ==
    /\ response.route = "verify_handle" /\ response.status = 400
    /\ \E ic \in claims_of(response.body.member_id, response.body.platform) :
          ic.verified /\ ic.verification_code = upper(response.body.code)
                      /\ ic.verification_code # response.body.code

\* C14: every refusal of a verification request, whatever its cause, is the same
\* status and detail, reaches the sender as the same text, and changes no identity
\* claim.
C14_UniformVerificationFailure ==
    [][(response' # response /\ response'.route = "verify_handle" /\ response'.status # 200) =>
          /\ response'.status = 400
          /\ response'.detail = "Invalid or already-used code."
          /\ identity_claims' = identity_claims
          /\ response'.origin # 0 =>
                /\ events'[response'.origin].reply = DidNotWork
                /\ events'[response'.origin].outcome = "returned"]_vars

\* A member's command with the issued code was answered with the failure text, the
\* claim being verified already, and the surface has refused a request for a
\* platform the member holds no claim on.
C14_Witness ==
    /\ \E e \in Events :
          /\ events[e].pc = "done" /\ events[e].reply = DidNotWork
          /\ events[e].member # Nothing
          /\ \E ic \in claims_of(events[e].member[1].id, "discord") :
                ic.verified /\ ic.verification_code = events[e].code
    /\ response.route = "verify_handle" /\ response.status = 400 /\ response.origin = 0
    /\ claims_of(response.body.member_id, response.body.platform) = {}
    /\ identity_claims # {}

\* C15: a message whose content is a verification command starts no relay_message
\* call and neither its handler's first step nor any later one writes a Provenance
\* record or a RelayMessage or dispatches, whether or not its sender is a member;
\* a message whose content is no command starts a relay_message call with that
\* content in the same step; and no relay_message call ever runs on a command.
C15_CommandExclusivity ==
    [][/\ \A c \in AllCalls : started(c) => verify_match(calls[c].content) = Nothing
       /\ \A e \in Events :
             /\ ((events[e].pc = "idle" \/ handled(e)) /\ events'[e] # events[e]) =>
                   IF verify_match(events'[e].content) # Nothing
                   THEN /\ events'[e].call = 0
                        /\ UNCHANGED <<calls, provenance, relay_messages, dispatched>>
                   ELSE /\ events'[e].call \in AllCalls
                        /\ calls[events'[e].call].pc = "idle"
                        /\ calls'[events'[e].call].pc # "idle"
                        /\ calls'[events'[e].call].content = events'[e].content
             /\ (events[e].pc \in {"post", "await_response"} /\ events'[e] # events[e]) =>
                   /\ events'[e].call = 0
                   /\ UNCHANGED <<calls, provenance, relay_messages, dispatched>>]_vars

\* A command long enough for the relay filter was answered, its sender a member,
\* while a destination was registered for the scope; nothing was relayed.
C15_Witness ==
    \E e \in Events :
        /\ events[e].pc = "done" /\ events[e].reply = Verified
        /\ should_relay(events[e].content)
        /\ \E i \in 1..Len(bindings) :
              bindings[i].scope_id = SCOPE_ID /\ eligible(bindings[i], "discord")
        /\ \A c \in AllCalls : ~started(c)
        /\ relay_messages = {}

\* The content is meant as a verification command: VERIFY and a blank lead it.
verification_attempt(content) ==
    LET c == upper(strip(content))
    IN  Len(c) >= 7 /\ SubSeq(c, 1, 6) = Chars("VERIFY") /\ IsSpace(c[7])

\* C16: the handler of every message meant as a verification command, whether its
\* code is malformed, its sender unknown or its code wrong or used, and whether or
\* not the surface can be reached, ends without an exception and has replied with
\* one of the fixed texts.
C16_InvalidCommandAnswered ==
    \A e \in Events :
        (handled(e) /\ verification_attempt(events[e].content)) =>
            /\ events[e].outcome # "raised"
            /\ events[e].reply \in {NotRecognized, Verified, DidNotWork}

\* C19: a relay_message call whose store call failed has ended with the error and
\* has left nothing of the failed write behind (it is not attempted again); a call
\* that failed at its identity lookup, its receipt record, its insert or its
\* binding listing has dispatched nothing; and every call that dispatched has its
\* receipt record written and the RelayMessage of its key stored.
C19_PersistenceUnavailable ==
    \A c \in AllCalls :
        /\ calls[c].error # None =>
              /\ calls[c].pc = "done" /\ calls[c].outcome = "raised"
              /\ calls[c].error \in {"lookup", "emit_received", "save", "get_bindings"} =>
                    dispatched[c] = <<>>
              /\ calls[c].error \in {"lookup", "emit_received"} =>
                    /\ ~\E p \in provenance : p.id = uuid4("provenance-received", c)
                    /\ ~\E r \in relay_messages : r.id = uuid4("message", c)
              /\ calls[c].error = "save" => calls[c].msg[1] \notin relay_messages
              /\ calls[c].error = "emit_relayed" => relayed_records(c) = {}
        /\ dispatched[c] # <<>> =>
              /\ \E p \in provenance : p.id = uuid4("provenance-received", c)
              /\ key_rows(calls[c].source_platform, calls[c].source_message_id) # {}

\* One call failed at its insert with a destination registered and dispatched
\* nothing, while another call for the same message stored it and dispatched.
C19_Witness ==
    \E c1 \in AllCalls, c2 \in AllCalls :
        /\ calls[c1].error = "save" /\ dispatched[c1] = <<>>
        /\ Len(get_active_bindings(calls[c1].scope_id)) >= 1
        /\ ended(c2) /\ calls[c2].outcome = "returned" /\ dispatched[c2] # <<>>
        /\ same_key(c1, c2)

\* The eligible bindings a call has read and not yet called dispatch for.
not_yet_dispatched(c) ==
    IF calls[c].pc = "hung"
    THEN eligible_of(Tail(calls[c].todo), calls[c].source_platform)
    ELSE eligible_of(calls[c].todo, calls[c].source_platform)

\* C20: when a dispatch of a call hangs, the eligible bindings after it in the same
\* fan-out are eventually dispatched to, and every other call that has started
\* eventually ends.
C20_SlowDispatchIsolation ==
    /\ \A c \in Calls :
          (calls[c].pc = "hung") ~> (not_yet_dispatched(c) = <<>>)
    /\ \A c \in Calls :
          (started(c) /\ calls[c].pc # "hung") ~> (ended(c) \/ calls[c].pc = "hung")

\* The content without the whitespace before its first and behind its last
\* character that is none.
trimmed(content) ==
    LET keep == {i \in 1..Len(content) : ~IsSpace(content[i])}
    IN  IF keep = {} THEN <<>>
        ELSE SubSeq(content, CHOOSE i \in keep : \A j \in keep : i <= j,
                             CHOOSE i \in keep : \A j \in keep : j <= i)

\* U+1F300-1F9FF, U+1FA00-1FA9F, U+2600-26FF, U+2700-27BF
in_emoji_ranges(ch) ==
    ch \in 127744..129535 \/ ch \in 129536..129695 \/ ch \in 9728..9983 \/ ch \in 9984..10175

reference_decision(content) ==
    LET t == trimmed(content)
    IN  /\ Len(t) >= 40
        /\ \E i \in 1..Len(t) : ~in_emoji_ranges(t[i]) /\ ~IsSpace(t[i])
        /\ t[1] # 128225

\* C21: should_relay returns, for every content, the reference decision: false when
\* the content is shorter than 40 after trimming, false when it is made of
\* emoji-range characters and whitespace only, false when it starts with the
\* attribution marker, and true otherwise.
C21_ShouldRelayReference ==
    (evaluation.fn = "should_relay" /\ evaluation.result # Nothing) =>
        evaluation.result[1] = reference_decision(evaluation.content)

\* should_relay accepted a content that is exactly 40 characters once the blanks
\* around it are trimmed.
C21_Witness ==
    /\ evaluation.fn = "should_relay" /\ evaluation.result = Some(TRUE)
    /\ Len(trimmed(evaluation.content)) = 40
    /\ Len(evaluation.content) > 40

\* The quoted part of a relayed text: what follows the first line break.
quoted_of(text) ==
    LET br == CHOOSE i \in 1..Len(text) : text[i] = 10 /\ \A j \in 1..(i - 1) : text[j] # 10
    IN  SubSeq(text, br + 1, Len(text))

\* The two characters "> " that lead the quoted part and follow each of its line breaks.
is_quote_marker(q, i) == i <= 2 \/ q[i - 1] = 10 \/ q[i - 2] = 10

RECURSIVE without_markers(_, _, _)
without_markers(q, lo, hi) ==
    IF lo > hi THEN <<>>
    ELSE IF lo = hi THEN (IF is_quote_marker(q, lo) THEN <<>> ELSE <<q[lo]>>)
    ELSE without_markers(q, lo, (lo + hi) \div 2) \o without_markers(q, (lo + hi) \div 2 + 1, hi)

\* The body of a relayed text: the quoted part less its quote markers.
body_of(text) == without_markers(quoted_of(text), 1, Len(quoted_of(text)))

\* C23: the body format_relay quotes is the content itself when the content is no
\* longer than 500 characters, and otherwise its first 497 characters and "...";
\* it is never longer than 500.
C23_RelayTruncation ==
    (evaluation.fn = "format_relay" /\ evaluation.result # Nothing) =>
        LET body == body_of(evaluation.result[1])
        IN  /\ Len(evaluation.content) <= 500 => body = evaluation.content
            /\ Len(evaluation.content) > 500 =>
                  body = SubSeq(evaluation.content, 1, 497) \o <<46, 46, 46>>
            /\ Len(body) <= 500

\* format_relay has rendered a content of 501 characters whose 497th is a line
\* break: the body is 500 long, its last line the ellipsis alone.
C23_Witness ==
    /\ evaluation.fn = "format_relay" /\ evaluation.result # Nothing
    /\ Len(evaluation.content) = 501 /\ evaluation.content[497] = 10
    /\ Len(body_of(evaluation.result[1])) = 500
    /\ Len(evaluation.result[1]) > Len(evaluation.content) + 2

RECURSIVE first_appearance(_, _)
\* The distinct authors of the messages, in order of first appearance.
first_appearance(messages, seen) ==
    IF messages = <<>> THEN <<>>
    ELSE IF Head(messages).author \in seen THEN first_appearance(Tail(messages), seen)
    ELSE <<Head(messages).author>>
            \o first_appearance(Tail(messages), seen \cup {Head(messages).author})

\* C24: the summary names the distinct authors in order of first appearance: one
\* as "@name", two or three joined by commas in that order, more as the first two
\* to appear and "and N others"; "reply" for one message and "replies" otherwise.
C24_SummaryAuthorOrder ==
    (evaluation.fn = "format_summary" /\ evaluation.result # Nothing) =>
        evaluation.result[1] =
            format_summary_text(evaluation.messages, evaluation.source_platform,
                                evaluation.channel, first_appearance(evaluation.messages, {}))

\* The texts the system has produced for a destination: those its dispatches
\* carried, and the thread summaries.
produced_texts ==
    UNION {{dispatched[k][i].content : i \in 1..Len(dispatched[k])} : k \in AllCalls}
        \cup SummaryTexts

\* C22: every text the system produces begins with the attribution marker and is
\* rejected by should_relay; a relay_message call on such a text returns None in its
\* first step, which writes no Provenance record and no RelayMessage and dispatches
\* nothing, and takes no further step; no stored RelayMessage holds such a text.
C22_LoopPrevention ==
    [][/\ \A t \in produced_texts' : startswith(t, _RELAY_PREFIX) /\ ~should_relay(t)
       /\ \A r \in relay_messages' : r.content \notin produced_texts'
       /\ \A c \in AllCalls :
             /\ (calls[c].pc = "idle" /\ calls'[c].pc # "idle"
                    /\ calls'[c].content \in produced_texts) =>
                   /\ calls'[c].pc = "done" /\ calls'[c].outcome = "returned"
                   /\ calls'[c].result = Nothing
                   /\ UNCHANGED <<relay_messages, provenance, dispatched>>
             /\ (calls[c].pc = "done" /\ calls[c].content \in produced_texts) =>
                   calls'[c] = calls[c] /\ dispatched'[c] = dispatched[c]]_vars

\* A call has returned None on the text another call delivered, a text longer than
\* the filter's minimum that names the member, while the scope had a destination
\* other than the platform the text came back from.
C22_Witness ==
    \E c \in AllCalls, k \in AllCalls :
        /\ ended(c) /\ calls[c].result = Nothing /\ c # k
        /\ \E i \in 1..Len(dispatched[k]) :
              /\ dispatched[k][i].sent /\ dispatched[k][i].content = calls[c].content
              /\ calls[c].source_platform = dispatched[k][i].platform
        /\ Len(strip(calls[c].content)) >= MIN_RELAY_LENGTH
        /\ calls[k].resolved_id # None
        /\ \E j \in 1..Len(bindings) : eligible(bindings[j], calls[c].source_platform)
        /\ provenance # {} /\ \A p \in provenance : p.id # uuid4("provenance-received", c)

scope_created_records == {p \in provenance : p.action = "scope.created"}

\* C25: no two stored Scopes share a slug, whatever the interleaving of the
\* create_community requests; a request whose slug exists, when it arrives or when
\* it comes to its insert, is refused, and its refusal creates no Scope and no
\* "scope.created" record; every Scope created has a slug no Scope had, and every
\* "scope.created" record is about a stored Scope, one record per Scope.
C25_SlugUnique ==
    [][/\ \A s1 \in scopes', s2 \in scopes' : s1.slug = s2.slug => s1 = s2
       /\ \A sc \in scopes' \ scopes : get_scope_by_slug(sc.slug) = {}
       /\ \A p1 \in scope_created_records', p2 \in scope_created_records' :
             /\ \E sc \in scopes' : sc.id = p1.scope_id /\ sc.slug = p1.detail.slug
             /\ p1.scope_id = p2.scope_id => p1 = p2
       /\ (response' # response /\ response'.route = "create_community"
              /\ response'.status # 201) =>
             /\ get_scope_by_slug(response'.body.slug) # {}
             /\ scopes' = scopes /\ provenance' = provenance
       /\ \A r \in Requests :
             /\ (requests[r].pc = "idle" /\ requests'[r].pc = "create_scope") =>
                   get_scope_by_slug(requests'[r].body.slug) = {}
             /\ (requests[r].pc = "create_scope" /\ requests'[r] # requests[r]
                    /\ get_scope_by_slug(requests[r].body.slug) # {}) =>
                   /\ requests'[r].pc = "idle"
                   /\ response'.status \in {409, 500} /\ response'.body = requests[r].body
                   /\ scopes' = scopes /\ provenance' = provenance]_vars

\* Two requests for one slug ran together: the Scope of one of them is stored, the
\* other has just been refused at its insert, and a request for the slug made
\* afterwards would be refused on arrival.
C25_Witness ==
    /\ response.route = "create_community" /\ response.status = 500
    /\ \E sc \in scopes : sc.slug = response.body.slug /\ sc.name # response.body.name
    /\ Cardinality(scopes) = 2
    /\ Cardinality(scope_created_records) = 2

\* C26: a call for a (source platform, native message id) whose RelayMessage was
\* stored for its scope before the call began has its insert absorbed, dispatches
\* to no binding and leaves no "message.relayed" record.
C26_DuplicateNotRedispatched ==
    \A c \in AllCalls :
        (/\ inserted(c) /\ stored_message(c) = {}
         /\ scope_key_rows(calls[c].scope_id, calls[c].source_platform,
                           calls[c].source_message_id) # {}) =>
            /\ dispatched[c] = <<>>
            /\ relayed_records(c) = {}

\* C27: a call that passed the filter and reads no eligible binding (the scope has
\* none, or each is the source platform or lacks a channel) has written its
\* "message.received" record and run its insert, so that a RelayMessage of its key
\* is stored, its own unless one was there before; it then ends in one step that
\* dispatches nothing, writes no "message.relayed" record and returns the message.
C27_NoDestinationStillRecorded ==
    [][\A c \in AllCalls :
        /\ (/\ calls[c].pc = "get_bindings" /\ calls'[c].pc = "fanout"
            /\ eligible_of(get_active_bindings(calls[c].scope_id),
                           calls[c].source_platform) = <<>>) =>
              /\ calls'[c].todo = <<>> /\ dispatched'[c] = <<>>
              /\ \E p \in provenance :
                    /\ p.id = calls[c].prov_id /\ p.action = "message.received"
                    /\ p.subject_id = calls[c].source_message_id
              /\ key_rows(calls[c].source_platform, calls[c].source_message_id) # {}
              /\ \/ calls[c].msg[1] \in relay_messages
                 \/ \E r \in key_rows(calls[c].source_platform, calls[c].source_message_id) :
                       r.id # calls[c].msg[1].id
        /\ (/\ calls[c].pc = "fanout" /\ calls[c].todo = <<>> /\ dispatched[c] = <<>>
            /\ calls'[c] # calls[c]) =>
              /\ calls'[c].pc = "done" /\ calls'[c].outcome = "returned"
              /\ calls'[c].result = calls[c].msg /\ calls'[c].result # Nothing
              /\ provenance' = provenance /\ dispatched' = dispatched
              /\ relay_messages' = relay_messages]_vars

\* A call has returned its stored message without a dispatch or a "message.relayed"
\* record, in a scope whose two bindings are one of the source platform and one
\* without a channel.
C27_Witness ==
    \E c \in AllCalls :
        /\ ended(c) /\ calls[c].result # Nothing /\ calls[c].result[1] \in relay_messages
        /\ dispatched[c] = <<>> /\ relayed_records(c) = {}
        /\ Len(get_active_bindings(calls[c].scope_id)) = 2
        /\ \E i \in 1..2 : get_active_bindings(calls[c].scope_id)[i].platform = calls[c].source_platform
        /\ \E i \in 1..2 : dict_get(get_active_bindings(calls[c].scope_id)[i].config, "default_channel_id") = None
        /\ \E p \in provenance : p.id = calls[c].prov_id

\* The members of a scope who hold a claim, verified or not, for the handle on the
\* platform.
holders(scope_id, platform, handle) ==
    {m \in members :
        /\ m.scope_id = scope_id
        /\ \E ic \in identity_claims :
              ic.member_id = m.id /\ ic.platform = platform /\ ic.handle = handle}

\* The name a call renders: the display name of the member it resolved, or the handle.
rendered_name(c) ==
    IF calls[c].resolved_id = None THEN calls[c].author_handle
    ELSE (CHOOSE m \in members : m.id = calls[c].resolved_id).display_name

\* C28: the first step of a call that passes the filter resolves the author to a
\* member of the call's scope holding a claim, verified or not, for (source
\* platform, handle), or to none when there is no such member, and the call goes
\* on either way; the message it builds and stores carries the resolved member's id
\* or none, and the text it renders and dispatches names the member's display name
\* or the raw handle.
C28_IdentityResolution ==
    [][\A c \in AllCalls :
        /\ (calls[c].pc = "idle" /\ calls'[c].pc # "idle" /\ should_relay(calls'[c].content)) =>
              LET hs == holders(calls'[c].scope_id, calls'[c].source_platform,
                                calls'[c].author_handle)
              IN  /\ calls'[c].pc = "emit_received"
                  /\ hs = {} => /\ calls'[c].resolved_id = None
                                /\ calls'[c].display_name = calls'[c].author_handle
                  /\ hs # {} => \E m \in hs : /\ calls'[c].resolved_id = m.id
                                              /\ calls'[c].display_name = m.display_name
        /\ calls[c].msg # Nothing =>
              /\ calls[c].msg[1].resolved_member_id = calls[c].resolved_id
              /\ \A r \in stored_message(c) : r.resolved_member_id = calls[c].resolved_id
        /\ (accepted(c) /\ calls[c].pc \in {"fanout", "done"}) =>
              /\ calls[c].relay_text =
                    format_relay(calls[c].content, rendered_name(c), calls[c].source_platform)
              /\ \A i \in 1..Len(dispatched[c]) :
                    dispatched[c][i].content = calls[c].relay_text]_vars

\* Two members of different scopes hold the same handle, one claim verified and the
\* other not; a message of that handle in the scope of the unverified one was
\* stored and dispatched under that member's id and display name, and not the
\* other's.
C28_Witness ==
    \E c \in AllCalls, m1 \in members, m2 \in members :
        /\ m1.scope_id # m2.scope_id
        /\ \E ic \in claims_of(m1.id, "discord") : ic.verified /\ ic.handle = calls[c].author_handle
        /\ \E ic \in claims_of(m2.id, "discord") : ~ic.verified /\ ic.handle = calls[c].author_handle
        /\ ended(c) /\ calls[c].scope_id = m2.scope_id /\ calls[c].resolved_id = m2.id
        /\ stored_message(c) # {} /\ dispatched[c] # <<>>
        /\ dispatched[c][1].content = format_relay(calls[c].content, m2.display_name, "discord")
        /\ dispatched[c][1].content # format_relay(calls[c].content, calls[c].author_handle, "discord")

\* C29: the step that completes a successful verification for (member, platform)
\* sets verified on the one claim of that member and platform and leaves every other
\* claim, of that member or another, as it is, adds and removes none, and changes
\* no member, binding, RelayMessage or Provenance record.
C29_VerificationFrame ==
    [][\A r \in Requests :
        (requests[r].pc = "update" /\ requests'[r].pc = "idle") =>
            LET body == requests[r].body
                target == claims_of(body.member_id, body.platform)
            IN  /\ response'.status = 200
                /\ Cardinality(target) = 1
                /\ identity_claims' =
                      (identity_claims \ target) \cup {[ic EXCEPT !.verified = TRUE] : ic \in target}
                /\ UNCHANGED <<members, bindings, relay_messages, provenance>>]_vars

\* The first member's Discord claim has just been verified; that member's other
\* claim and the second member's claim for the same Discord handle are unverified,
\* and the community holds a binding, a RelayMessage and Provenance records.
C29_Witness ==
    /\ response.route = "verify_handle" /\ response.status = 200
    /\ response.body.member_id = uuid4("member", 1) /\ response.body.platform = "discord"
    /\ \E ic \in claims_of(uuid4("member", 1), "discord") : ic.verified
    /\ \E ic \in claims_of(uuid4("member", 1), "chatapp") : ~ic.verified
    /\ \E ic \in claims_of(uuid4("member", 2), "discord") :
          ~ic.verified /\ \E jc \in claims_of(uuid4("member", 1), "discord") : jc.handle = ic.handle
    /\ bindings # <<>> /\ relay_messages # {} /\ provenance # {}

\* C30: of the verification calls for one (member, platform, code) that run
\* concurrently, at most one returns success: a call completes its update with
\* success only on a claim that no other call has marked verified yet.
C30_ConcurrentVerificationOnce ==
    [][\A r \in Requests :
        (requests[r].pc = "update" /\ requests'[r].pc = "idle" /\ response'.status = 200) =>
            \E ic \in claims_of(requests[r].body.member_id, requests[r].body.platform) :
                ~ic.verified]_vars

\* C31: every call that passed the filter and is past its insert finds a
\* RelayMessage of its own scope stored for its (source platform, native message
\* id), whatever other scopes have stored for the same platform and id.
C31_DeduplicationPerScope ==
    \A c \in AllCalls :
        inserted(c) =>
            scope_key_rows(calls[c].scope_id, calls[c].source_platform,
                           calls[c].source_message_id) # {}

\* C32: within one call dispatch is invoked at most once for each destination
\* platform, each platform is listed at most once in the call's "message.relayed"
\* record, and every dispatch of the call carries the same rendered text.
C32_OneDispatchPerDestination ==
    /\ \A c \in AllCalls : \A i \in 1..Len(dispatched[c]), j \in 1..Len(dispatched[c]) :
          /\ dispatched[c][i].platform = dispatched[c][j].platform => i = j
          /\ dispatched[c][i].content = dispatched[c][j].content
    /\ \A p \in provenance :
          p.action = "message.relayed" =>
              \A i \in 1..Len(p.detail.dispatched_to), j \in 1..Len(p.detail.dispatched_to) :
                  p.detail.dispatched_to[i] = p.detail.dispatched_to[j] => i = j
====
